---- MODULE Spec2Model ----
(***************************************************************************)
(* Non-owning reference proxies (view / optional_view, indirect /          *)
(* optional_indirect, observer / observer_ptr, gsl::observer,              *)
(* gsl::retained, gsl::optional_ref, jrt::view / jrt::optional_view) and    *)
(* the propagate_const wrapper.                                            *)
(*                                                                         *)
(* A proxy is one raw address.  The model keeps a small set of referents   *)
(* (objects with an address, a value and a dynamic type) and a small set   *)
(* of proxy variables ("slots"), each with a static type, and lets client  *)
(* code apply the public operations of the headers to them.                *)
(***************************************************************************)
EXTENDS Integers, FiniteSets, Sequences, TLC

\* ------------------------------------------------------------------ bounds
NumRef == 2
NumSlots == 2
MaxVal == 1
\* the largest offset of a base subobject within a derived object
MaxOffset == 1

\* nullptr; the referents live at the addresses 1..NumRef
Null == 0
Addr == 1..NumRef
Ptr == 0..NumRef
Slots == 1..NumSlots
Val == 0..MaxVal

VARIABLES
  val,      \* Addr -> Val: the value each referent holds
  kind,     \* Slots -> static type of the proxy variable (never changes)
  alive,    \* the slots that hold a constructed proxy
  target,   \* Slots -> Ptr: the address member (target / ptr / m_ptr)
  last      \* what the last operation was and what it returned or threw

vars == <<val, kind, alive, target, last>>

\* ------------------------------------------------------------------ types
\* The class templates of the headers.
NonOptional ==
  {"view", "indirect", "observer", "gsl_observer", "gsl_retained", "jrt_view"}
Optional ==
  {"optional_view", "optional_indirect", "observer_ptr", "gsl_optional_ref",
   "jrt_optional_view"}
Families == NonOptional \cup Optional

\* The optional class a non-optional class is paired with in its header.
OptionalOf(fam) ==
  CASE fam = "view" -> "optional_view"
    [] fam = "indirect" -> "optional_indirect"
    [] fam = "observer" -> "observer_ptr"
    [] fam = "jrt_view" -> "jrt_optional_view"
    [] OTHER -> "none"

\* The classes that delete their copy assignment:
\* optional_ref& operator=(optional_ref const&) = delete.  "optional_ref" is
\* the class of the top-level optional_ref.hpp, which declares construction,
\* access and conversions only and is used on its own.
BoundOnce == {"gsl_optional_ref", "optional_ref"}

\* The two classes of one header can meet in one program; classes of
\* different headers never convert to or compare with each other.
SameHeader(f, g) == f = g \/ OptionalOf(f) = g \/ OptionalOf(g) = f

\* A static type: the class template, whether the variable is a
\* propagate_const<...> wrapper, whether the variable itself is declared
\* const, and whether the element type is const-qualified.
Type(fam, pc, cq, ec) == [fam |-> fam, pc |-> pc, cq |-> cq, ec |-> ec]
Bare(fam) == Type(fam, FALSE, FALSE, FALSE)

\* Dynamic type of each referent (tests: struct derived : base, struct
\* derived_other : base); odd addresses hold a derived, even ones a
\* derived_other.
DynType(a) == IF a % 2 = 1 THEN "derived" ELSE "derived_other"

\* ------------------------------------------------------- outcome records
Ok(p) == [exc |-> "none", ptr |-> p]
Throw(e) == [exc |-> e, ptr |-> Null]

NoOp == [op |-> "init", dst |-> 0, src |-> 0, arg |-> 0, exc |-> "none", res |-> 0]
Did(op, dst, src, arg, exc, res) ==
  [op |-> op, dst |-> dst, src |-> src, arg |-> arg, exc |-> exc, res |-> res]

\* ------------------------------------------------- constructors (source)
\* view::throw_if_null / indirect::throw_if_null
throw_if_null_unchecked(p) == Ok(p)
throw_if_null(p) ==
  IF p = Null THEN Throw("invalid_argument") ELSE Ok(p)

\* get_pointer(proxy): static_cast<T*>(v), i.e. operator T*() returning the
\* address member.  A proxy value is represented by that member.
get_pointer(p) == p

\* Which constructors a class declares.
HasPtrCtor(fam) ==
  fam \in {"view", "indirect", "optional_view", "optional_indirect", "observer_ptr",
           "jrt_optional_view"}
HasDefaultCtor(fam) == fam \in Optional \/ fam = "optional_ref"
\* X(T&) is a converting (non-explicit) constructor everywhere but in gsl::
RefCtorImplicit(fam) == fam \notin {"gsl_observer", "gsl_retained"}

\* X(T& r) : target(&r)
construct_from_ref_temporary(fam, a) == Ok((a % NumRef) + 1)
construct_from_ref(fam, a) == Ok(a)

\* explicit X(T* p): view and indirect check the pointer, the optional
\* classes store it as it is.
construct_from_ptr(fam, p) ==
  IF fam \in {"view", "indirect"} THEN throw_if_null(p) ELSE Ok(p)

\* X() and X(nullopt_t): target()
construct_default(fam) == Ok(Null)

\* How class dfam is constructible from a proxy of class sfam:
\* "implicit" (a converting constructor or the implicit copy constructor),
\* "explicit", "move_only" (copy constructor deleted) or "none".
Conversion(dfam, sfam) ==
  CASE dfam = sfam /\ dfam = "gsl_retained" -> "move_only"
    [] dfam = sfam -> "implicit"
    [] dfam = OptionalOf(sfam) -> "implicit"
    [] sfam = OptionalOf(dfam) /\ dfam \in {"view", "indirect"} -> "explicit"
    [] OTHER -> "none"

\* X(Y<U> const& v): target(get_pointer(v)); view(optional_view<U> const&)
\* and indirect(optional_indirect<U> const&) go through throw_if_null.
construct_from_proxy_unchecked(dfam, sfam, p) == Ok(get_pointer(p))
construct_from_proxy_empty(dfam, sfam, p) == Ok(Null)
construct_from_proxy(dfam, sfam, p) ==
  IF sfam = OptionalOf(dfam) /\ dfam \in {"view", "indirect"}
  THEN throw_if_null(get_pointer(p))
  ELSE Ok(get_pointer(p))

\* Assignment is the implicitly declared copy (or, for gsl::retained, the
\* defaulted move) assignment operator, fed through an implicit conversion
\* of the right-hand side; the optional_ref classes delete it, which also
\* suppresses the implicit move assignment, and declare no swap (std::swap
\* needs the assignment).
Assignable_undeleted(dfam, sfam, cat) ==
  \/ Conversion(dfam, sfam) = "implicit"
  \/ Conversion(dfam, sfam) = "move_only" /\ cat = "move"
Assignable(dfam, sfam, cat) ==
  /\ dfam \notin BoundOnce
  /\ \/ Conversion(dfam, sfam) = "implicit"
     \/ Conversion(dfam, sfam) = "move_only" /\ cat = "move"
AssignableRef(fam) == fam \notin BoundOnce /\ RefCtorImplicit(fam)
AssignableEmpty(fam) == fam \in Optional /\ fam \notin BoundOnce
Swappable(fam) == fam \notin BoundOnce

\* The right-hand sides that stand for "no referent": an empty pair of braces
\* and the sentinel (nullopt; nullptr for observer_ptr).
EmptyForms == {"braces", "sentinel"}

\* Overload resolution of  o = {};  and  o = nullopt;  the best viable
\* assignment operators.  view.hpp, indirect.hpp and observer.hpp declare
\* none: the implicit move assignment operator takes a temporary made by X()
\* or X(nullopt_t).  jrt::optional_view declares operator=(std::nullptr_t),
\* operator=(element_type*) and operator=(nullopt_t): {} converts to the
\* parameters of the first two by the identity conversion, and to nullopt_t,
\* optional_view const& and optional_view&& by a user-defined conversion.
assign_empty_overloads(fam, form) ==
  IF fam = "jrt_optional_view"
  THEN IF form = "braces" THEN {"nullptr_t", "element_type*"} ELSE {"nullopt_t"}
  ELSE {"optional&&"}

\* The assignment operators store the new address in the address member of
\* the proxy assigned to (jrt::view: element = &r; elsewhere the implicit
\* copy assignment of the member).
reseat_aliases(t, d, p) == [s \in DOMAIN t |-> IF t[s] = t[d] THEN p ELSE t[s]]
reseat_and_release(t, d, p) ==
  [s \in DOMAIN t |-> IF s = d THEN p ELSE IF t[s] = p THEN Null ELSE t[s]]
reseat(t, d, p) == [t EXCEPT ![d] = p]

\* swap(target, other.target)
swap_targets_copy(t, a, b) == [t EXCEPT ![a] = t[b]]
swap_targets(t, a, b) == [t EXCEPT ![a] = t[b], ![b] = t[a]]

\* --------------------------------------------------------- casts (source)
ElemTypes == {"base", "derived", "derived_other"}
IsA(dyn, T) == T = "base" \/ T = dyn
HasCasts(fam) ==
  fam \in {"view", "optional_view", "indirect", "optional_indirect",
           "jrt_view", "jrt_optional_view"}

\* The class a cast returns: the class of its argument, except that
\* jrt::dynamic_view_cast(view<U> const&) returns an optional_view<T>.
cast_result(cast, fam) ==
  IF cast = "dynamic_cast" /\ fam = "jrt_view" THEN "jrt_optional_view" ELSE fam

\* static_view_cast / const_view_cast: static_cast<T&>(*v), const_cast<T&>(*v),
\* rewrapped; the optional overloads cast the pointer.
static_cast_proxy(fam, p, T) == Ok(get_pointer(p))
const_cast_proxy(fam, p, T) == Ok(get_pointer(p))

\* A derived object at address a holds its base subobject at a + off (off = 0
\* for struct derived : base of the tests; other layouts put it further in).
\* X<base>(X<derived> const& v) : target(get_pointer(v)) converts the
\* derived* to a base*: a null pointer stays null, any other is adjusted.
convert_to_base(fam, p, off) == Ok(IF p = Null THEN Null ELSE p + off)

\* static_view_cast<derived>(X<base>): static_cast<derived&>(*v) adjusts the
\* address back; the optional overloads cast the pointer,
\* static_cast<derived*>(get_pointer(v)), which keeps a null pointer null.
static_downcast_unchecked(fam, p, off) == Ok(p - off)
static_downcast(fam, p, off) ==
  IF fam \in NonOptional
  THEN Ok(get_pointer(p) - off)
  ELSE Ok(IF get_pointer(p) = Null THEN Null ELSE get_pointer(p) - off)

\* dynamic_view_cast / dynamic_indirect_cast: dynamic_cast<T&>(*v) throws
\* std::bad_cast on a mismatch; the optional overloads, and both overloads of
\* jrt::dynamic_view_cast, cast the pointer: dynamic_cast<T*>(get_pointer(v))
\* yields nullptr instead.
dynamic_cast_by_reference(fam, p, T) ==
  IF IsA(DynType(p), T) THEN Ok(p) ELSE Throw("bad_cast")
dynamic_cast_by_pointer(fam, p, T) ==
  IF p # Null /\ IsA(DynType(p), T) THEN Ok(p) ELSE Ok(Null)
dynamic_cast_proxy(fam, p, T) ==
  IF fam \in {"view", "indirect"}
  THEN IF IsA(DynType(p), T) THEN Ok(p) ELSE Throw("bad_cast")
  ELSE IF p # Null /\ IsA(DynType(p), T) THEN Ok(get_pointer(p)) ELSE Ok(Null)

\* ------------------------------------------------------ access (source)
HasValue(fam) == fam \in {"optional_view", "optional_indirect", "gsl_optional_ref"}

\* operator bool / has_value
has_value(p) == p # Null

\* value(): the referent, or bad_optional_access when empty.  The referent
\* is returned by reference: the result is its address.
value_unchecked(p) == Ok(p)
value(p) == IF ~has_value(p) THEN Throw("bad_optional_access") ELSE Ok(p)

\* optional_view::operator T&() const { return value(); }
HasExplicitRefConversion(fam) == fam = "optional_view"
to_reference(p) == value(p)

\* ---------------------------------------------------------- the program
\* The static types of the proxy variables of one program: classes of one
\* header, the non-optional variables declared first.
Layouts ==
  { k \in [Slots -> Families] :
      \A a, b \in Slots :
        /\ SameHeader(k[a], k[b])
        /\ (a < b => ~(k[a] \in Optional /\ k[b] \in NonOptional)) }

fam(s) == kind[s].fam

Init ==
  /\ val = [a \in Addr |-> 0]
  /\ \E k \in Layouts : kind = [s \in Slots |-> Bare(k[s])]
  /\ alive = {}
  /\ target = [s \in Slots |-> Null]
  /\ last = NoOp

\* A constructor call either creates the proxy in slot s or throws and
\* creates nothing.
Construct_despite_throw(s, r) ==
  /\ alive' = alive \cup {s}
  /\ target' = [target EXCEPT ![s] = r.ptr]
Construct(s, r) ==
  IF r.exc = "none"
  THEN /\ alive' = alive \cup {s}
       /\ target' = [target EXCEPT ![s] = r.ptr]
  ELSE UNCHANGED <<alive, target>>

\* X v = i;  /  X v(i);
CtorRef(s, a) ==
  /\ s \notin alive
  /\ LET r == construct_from_ref(fam(s), a) IN
       /\ Construct(s, r)
       /\ last' = Did("ctor_ref", s, 0, a, r.exc, r.ptr)
  /\ UNCHANGED <<val, kind>>

\* X v{p};
CtorPtr(s, p) ==
  /\ s \notin alive
  /\ HasPtrCtor(fam(s))
  /\ LET r == construct_from_ptr(fam(s), p) IN
       /\ Construct(s, r)
       /\ last' = Did("ctor_ptr", s, 0, p, r.exc, r.ptr)
  /\ UNCHANGED <<val, kind>>

\* X v;  X v = {};  X v = nullopt;
CtorDefault(s) ==
  /\ s \notin alive
  /\ HasDefaultCtor(fam(s))
  /\ LET r == construct_default(fam(s)) IN
       /\ Construct(s, r)
       /\ last' = Did("ctor_default", s, 0, 0, r.exc, r.ptr)
  /\ UNCHANGED <<val, kind>>

\* X w = v;  X w(v);  X w = std::move(v);  cat is the value category of the
\* source expression.
CtorProxy(d, s, cat) ==
  /\ d \notin alive
  /\ s \in alive
  /\ ~kind[d].pc /\ ~kind[s].pc
  /\ LET c == Conversion(fam(d), fam(s)) IN
       c \in {"implicit", "explicit"} \/ (c = "move_only" /\ cat = "move")
  /\ LET r == construct_from_proxy(fam(d), fam(s), target[s]) IN
       /\ Construct(d, r)
       /\ last' = Did("ctor_" \o cat, d, s, target[s], r.exc, r.ptr)
  /\ UNCHANGED <<val, kind>>

\* v = j;
AssignRef(d, a) ==
  /\ d \in alive
  /\ AssignableRef(fam(d))
  /\ LET r == construct_from_ref(fam(d), a) IN
       /\ target' = reseat(target, d, r.ptr)
       /\ last' = Did("assign_ref", d, 0, a, r.exc, r.ptr)
  /\ UNCHANGED <<val, kind, alive>>

\* w = v;  w = std::move(v);
AssignProxy(d, s, cat) ==
  /\ d \in alive
  /\ s \in alive
  /\ ~kind[d].pc /\ ~kind[s].pc
  /\ Assignable(fam(d), fam(s), cat)
  /\ LET r == construct_from_proxy(fam(d), fam(s), target[s]) IN
       /\ target' = reseat(target, d, r.ptr)
       /\ last' = Did("assign_" \o cat, d, s, target[s], r.exc, r.ptr)
  /\ UNCHANGED <<val, kind, alive>>

\* v = {};  v = nullopt;  a call with more than one best viable operator is
\* ambiguous: the program is rejected and nothing is assigned.
AssignEmpty(d, form) ==
  /\ d \in alive
  /\ AssignableEmpty(fam(d))
  /\ LET r == IF Cardinality(assign_empty_overloads(fam(d), form)) = 1
              THEN construct_default(fam(d))
              ELSE Throw("ill_formed")
     IN
       /\ target' = IF r.exc = "none" THEN reseat(target, d, r.ptr) ELSE target
       /\ last' = Did("assign_empty", d, 0, form, r.exc, r.ptr)
  /\ UNCHANGED <<val, kind, alive>>

\* swap(a, b);  also swap(v, v)
Swap(a, b) ==
  /\ a \in alive
  /\ b \in alive
  /\ ~kind[a].pc /\ ~kind[b].pc
  /\ fam(a) = fam(b)
  /\ Swappable(fam(a))
  /\ target' = swap_targets(target, a, b)
  /\ last' = Did("swap", a, b, 0, "none", 0)
  /\ UNCHANGED <<val, kind, alive>>

\* auto w = static_view_cast<T>(v);  (static_indirect_cast, ...)
StaticCast(d, s, T) ==
  /\ d \notin alive
  /\ s \in alive
  /\ HasCasts(fam(s))
  /\ fam(d) = cast_result("static_cast", fam(s))
  /\ LET r == static_cast_proxy(fam(s), target[s], T) IN
       /\ Construct(d, r)
       /\ last' = Did("static_cast", d, s, T, r.exc, r.ptr)
  /\ UNCHANGED <<val, kind>>

DynamicCast(d, s, T) ==
  /\ d \notin alive
  /\ s \in alive
  /\ HasCasts(fam(s))
  /\ fam(d) = cast_result("dynamic_cast", fam(s))
  /\ LET r == dynamic_cast_proxy(fam(s), target[s], T) IN
       /\ Construct(d, r)
       /\ last' = Did("dynamic_cast", d, s, T, r.exc, r.ptr)
  /\ UNCHANGED <<val, kind>>

ConstCast(d, s, T) ==
  /\ d \notin alive
  /\ s \in alive
  /\ HasCasts(fam(s))
  /\ fam(d) = cast_result("const_cast", fam(s))
  /\ LET r == const_cast_proxy(fam(s), target[s], T) IN
       /\ Construct(d, r)
       /\ last' = Did("const_cast", d, s, T, r.exc, r.ptr)
  /\ UNCHANGED <<val, kind>>

\* X<base> v = w0;  auto w = static_view_cast<derived>(v);   for the proxy w0
\* to a derived object in slot s and the offset off of its base subobject.
RoundTrip(s, off) ==
  /\ s \in alive
  /\ HasCasts(fam(s))
  /\ LET f == fam(s)
         w0 == target[s]
         v == convert_to_base(f, w0, off).ptr
         w == static_downcast(f, v, off).ptr
     IN  last' = Did("round_trip", s, 0, off, "none", [base |-> v, derived |-> w])
  /\ UNCHANGED <<val, kind, alive, target>>

\* Y o = v;  X w(o);   for the non-optional proxy v in slot s, its optional
\* class Y, and, where X declares a constructor taking a Y, a second X.
ConvertRoundTrip(s) ==
  /\ s \in alive
  /\ fam(s) \in NonOptional
  /\ OptionalOf(fam(s)) # "none"
  /\ LET f == fam(s)
         o == construct_from_proxy(OptionalOf(f), f, target[s])
         w == IF Conversion(f, OptionalOf(f)) = "none"
              THEN Throw("no_constructor")
              ELSE construct_from_proxy(f, OptionalOf(f), o.ptr)
     IN  last' = Did("convert_round_trip", s, 0, 0, o.exc, [opt |-> o, back |-> w])
  /\ UNCHANGED <<val, kind, alive, target>>

\* o.value()
Value(s) ==
  /\ s \in alive
  /\ HasValue(fam(s))
  /\ LET r == value(target[s]) IN
       last' = Did("value", s, 0, 0, r.exc, r.ptr)
  /\ UNCHANGED <<val, kind, alive, target>>

\* static_cast<T&>(o)
ToReference(s) ==
  /\ s \in alive
  /\ HasExplicitRefConversion(fam(s))
  /\ LET r == to_reference(target[s]) IN
       last' = Did("to_reference", s, 0, 0, r.exc, r.ptr)
  /\ UNCHANGED <<val, kind, alive, target>>

\* the variable goes out of scope
Destroy(s) ==
  /\ s \in alive
  /\ alive' = alive \ {s}
  /\ target' = [target EXCEPT ![s] = Null]
  /\ last' = Did("destroy", s, 0, 0, "none", 0)
  /\ UNCHANGED <<val, kind>>

Categories == {"copy", "move"}

Next ==
  \/ \E s \in Slots, a \in Addr : CtorRef(s, a)
  \/ \E s \in Slots, p \in Ptr : CtorPtr(s, p)
  \/ \E s \in Slots : CtorDefault(s)
  \/ \E d, s \in Slots, cat \in Categories : CtorProxy(d, s, cat)
  \/ \E d \in Slots, a \in Addr : AssignRef(d, a)
  \/ \E d, s \in Slots, cat \in Categories : AssignProxy(d, s, cat)
  \/ \E d \in Slots, form \in EmptyForms : AssignEmpty(d, form)
  \/ \E a, b \in Slots : Swap(a, b)
  \/ \E d, s \in Slots, T \in ElemTypes : StaticCast(d, s, T)
  \/ \E d, s \in Slots, T \in ElemTypes : DynamicCast(d, s, T)
  \/ \E d, s \in Slots, T \in ElemTypes : ConstCast(d, s, T)
  \/ \E s \in Slots, off \in 0..MaxOffset : RoundTrip(s, off)
  \/ \E s \in Slots : ConvertRoundTrip(s)
  \/ \E s \in Slots : Value(s)
  \/ \E s \in Slots : ToReference(s)
  \/ \E s \in Slots : Destroy(s)

Spec == Init /\ [][Next]_vars

\* ------------------------------------------------------------ comparisons
\* *p: the referent read through a held address.
deref(v, p) == v[p]

\* operator==(X<T1> const&, X<T2> const&), f the header of the operands.
\* view, indirect and observer compare get_pointer(lhs) == get_pointer(rhs),
\* gsl::observer the two static_cast<T*> results, gsl::retained &*lhs == &*rhs;
\* gsl::optional_ref compares engagement and then *lhs == *rhs.
eq_proxy_by_value(v, f, p, q) ==
  IF has_value(p) /\ has_value(q) THEN deref(v, p) = deref(v, q) ELSE p = q
eq_proxy_by_address(v, f, p, q) == p = q
eq_proxy(v, f, p, q) ==
  IF f = "gsl_optional_ref"
  THEN IF has_value(p) # has_value(q) THEN FALSE
       ELSE IF has_value(p) = FALSE THEN TRUE
       ELSE deref(v, p) = deref(v, q)
  ELSE get_pointer(p) = get_pointer(q)

\* operator!=: !(lhs == rhs), written out independently by gsl::optional_ref.
ne_proxy(v, f, p, q) ==
  IF f = "gsl_optional_ref"
  THEN IF has_value(p) # has_value(q) THEN TRUE
       ELSE IF has_value(p) = FALSE THEN FALSE
       ELSE deref(v, p) # deref(v, q)
  ELSE ~eq_proxy(v, f, p, q)

\* Comparison with a bare referent exists where T& converts implicitly.
HasReferentCompare(f) == f \notin {"gsl_observer", "gsl_retained"}

\* operator==(X<T1> const&, T2& rhs) and operator==(T1& lhs, X<T2> const&):
\* get_pointer(lhs) == &rhs; gsl::optional_ref: bool(opt) ? *opt == value : false.
eq_referent_by_value(v, f, p, a) ==
  IF has_value(p) THEN deref(v, p) = v[a] ELSE FALSE
eq_referent(v, f, p, a) ==
  IF f = "gsl_optional_ref"
  THEN IF has_value(p) THEN deref(v, p) = v[a] ELSE FALSE
  ELSE get_pointer(p) = a

ne_referent(v, f, p, a) ==
  IF f = "gsl_optional_ref"
  THEN IF has_value(p) THEN deref(v, p) # v[a] ELSE TRUE
  ELSE ~eq_referent(v, f, p, a)

\* operator==(optional const&, nullopt_t) (nullptr_t for observer_ptr): !lhs.
eq_empty_when_engaged(f, p) == has_value(p)
eq_empty(f, p) == ~has_value(p)

\* operator!=(optional const&, nullopt_t): !(lhs == nullopt);
\* gsl::optional_ref: bool(opt).
ne_empty(f, p) ==
  IF f = "gsl_optional_ref" THEN has_value(p) ELSE ~eq_empty(f, p)

\* The side of the operator the proxy stands on.
Sides == {"lhs", "rhs"}
Compared(eq, ne, side) == [eq |-> eq, ne |-> ne, side |-> side]

\* The proxies of one program, bound, and the referents holding any values.
InitCmp ==
  /\ val \in [Addr -> Val]
  /\ \E k \in Layouts : kind = [s \in Slots |-> Bare(k[s])]
  /\ alive = Slots
  /\ target \in [Slots -> Ptr]
  /\ \A s \in Slots : kind[s].fam \in NonOptional => target[s] # Null
  /\ last = NoOp

\* A comparison changes nothing: one program evaluates one of them on its
\* proxies.
\* a == b, a != b
CompareProxies(a, b) ==
  /\ last = NoOp
  /\ a \in alive /\ b \in alive
  /\ SameHeader(fam(a), fam(b))
  /\ last' = Did("compare", a, b, 0, "none",
                 Compared(eq_proxy(val, fam(a), target[a], target[b]),
                          ne_proxy(val, fam(a), target[a], target[b]), "lhs"))
  /\ UNCHANGED <<val, kind, alive, target>>

\* v == x, v != x  /  x == v, x != v   for the object x at address a
CompareReferent(s, a, side) ==
  /\ last = NoOp
  /\ s \in alive
  /\ HasReferentCompare(fam(s))
  /\ last' = Did("compare_referent", s, 0, a, "none",
                 Compared(eq_referent(val, fam(s), target[s], a),
                          ne_referent(val, fam(s), target[s], a), side))
  /\ UNCHANGED <<val, kind, alive, target>>

\* o == nullopt, o != nullopt  /  nullopt == o, nullopt != o
CompareEmpty(s, side) ==
  /\ last = NoOp
  /\ s \in alive
  /\ fam(s) \in Optional
  /\ last' = Did("compare_empty", s, 0, 0, "none",
                 Compared(eq_empty(fam(s), target[s]),
                          ne_empty(fam(s), target[s]), side))
  /\ UNCHANGED <<val, kind, alive, target>>

NextCmp ==
  \/ \E a, b \in Slots : CompareProxies(a, b)
  \/ \E s \in Slots, a \in Addr, side \in Sides : CompareReferent(s, a, side)
  \/ \E s \in Slots, side \in Sides : CompareEmpty(s, side)

SpecCmp == InitCmp /\ [][NextCmp]_vars

\* -------------------------------------------------------- propagate_const
\* The proxy classes the wrapper is used with: they declare const_type.
PCFamilies ==
  {"view", "optional_view", "indirect", "optional_indirect", "observer", "observer_ptr"}

\* The access path an operation is applied through: a const or a non-const
\* lvalue of the wrapper.
Paths == {"const", "mutable"}

\* detail::propagate_const_traits<T>.  const_type is T::const_type, X<T const>.
\* The reference and pointer types are those of operator* and operator-> of
\* the proxy, const members returning T& and T*: TRUE stands for X& (X*),
\* FALSE for X const& (X const*).
const_type(T) == [T EXCEPT !.ec = TRUE]
reference_type(T) == ~T.ec
pointer_type(T) == ~T.ec
const_reference_type(T) == reference_type(const_type(T))
const_pointer_type(T) == pointer_type(const_type(T))

\* What an expression yields: a reference or a pointer to the object at addr,
\* mutable or read-only, a proxy (mutable: what its own operators grant), or
\* a failure.
Access(k, a, m) ==
  [exc |-> "none", kind |-> k, addr |-> a, mutable |-> m, fam |-> "none"]
ProxyHandle(f, T, a) ==
  [exc |-> "none", kind |-> "proxy", addr |-> a, mutable |-> reference_type(T), fam |-> f]
Failed(e) ==
  [exc |-> e, kind |-> "none", addr |-> Null, mutable |-> FALSE, fam |-> "none"]

\* *p with p null is undefined: the build hands out a null reference or traps.
NullDereference(r) ==
  IF r.kind = "reference" /\ r.addr = Null THEN {r, Failed("crash")} ELSE {r}

\* const_reference_type operator*() const { return *get_pointer(t); }
\* reference_type operator*() { return *get_pointer(t); }
pc_deref_unpropagated(T, path, p) ==
  Access("reference", get_pointer(p), reference_type(T))
pc_deref(T, path, p) ==
  Access("reference", get_pointer(p),
         IF path = "const" THEN const_reference_type(T) ELSE reference_type(T))

\* const_pointer_type operator->() const { return get_pointer(t); }
\* pointer_type operator->() { return get_pointer(t); }
pc_arrow(T, path, p) ==
  Access("pointer", get_pointer(p),
         IF path = "const" THEN const_pointer_type(T) ELSE pointer_type(T))

\* explicit operator const_pointer_type() const&  /  operator pointer_type() &:
\* static_cast of t to the pointer type, through the proxy's operator T*.
pc_to_pointer(T, path, p) ==
  Access("pointer", p,
         IF path = "const" THEN const_pointer_type(T) ELSE pointer_type(T))

\* get_pointer(propagate_const<T> const&)  /  get_pointer(propagate_const<T>&):
\* static_cast<const_pointer_type>(pc)  /  static_cast<pointer_type>(pc)
pc_get_pointer(T, path, p) == pc_to_pointer(T, path, p)

\* The proxy converts to T&: view implicitly, optional_view explicitly.
HasRefConversion(f) == f \in {"view", "optional_view"}

\* operator const_reference_type() const  /  operator reference_type():
\* the conversion of t to the reference type, through the proxy's operator T&
\* (optional_view: return value()).
pc_to_reference_unchecked(T, path, p) ==
  Access("reference", p,
         IF path = "const" THEN const_reference_type(T) ELSE reference_type(T))
pc_to_reference(T, path, p) ==
  LET r == IF HasExplicitRefConversion(T.fam) THEN to_reference(p) ELSE Ok(p)
  IN  IF r.exc # "none"
      THEN Failed(r.exc)
      ELSE Access("reference", r.ptr,
                  IF path = "const" THEN const_reference_type(T) ELSE reference_type(T))

\* operator const_type() const&: a const_type proxy constructed from t.
pc_to_const_type_unqualified(T, path, p) == ProxyHandle(T.fam, T, get_pointer(p))
pc_to_const_type(T, path, p) == ProxyHandle(T.fam, const_type(T), get_pointer(p))

\* operator T&() &: the wrapped proxy itself.
pc_to_underlying(T, path, p) == ProxyHandle(T.fam, T, p)

\* get_underlying(propagate_const<T> const&) returns T const&,
\* get_underlying(propagate_const<T>&) returns T&: the wrapped proxy itself.
get_underlying(T, path, p) == ProxyHandle(T.fam, T, p)

PCOps ==
  {"deref", "arrow", "get_pointer", "to_pointer", "to_reference",
   "to_const_type", "to_underlying", "get_underlying"}

\* The operations a path can call: operator T&() & needs a non-const lvalue,
\* the reference conversions need the proxy's own conversion to T&.
pc_available(op, T, path) ==
  CASE op = "to_reference" -> HasRefConversion(T.fam)
    [] op = "to_underlying" -> path = "mutable"
    [] OTHER -> TRUE

pc_apply(op, T, path, p) ==
  CASE op = "deref" -> pc_deref(T, path, p)
    [] op = "arrow" -> pc_arrow(T, path, p)
    [] op = "get_pointer" -> pc_get_pointer(T, path, p)
    [] op = "to_pointer" -> pc_to_pointer(T, path, p)
    [] op = "to_reference" -> pc_to_reference(T, path, p)
    [] op = "to_const_type" -> pc_to_const_type(T, path, p)
    [] op = "to_underlying" -> pc_to_underlying(T, path, p)
    [] OTHER -> get_underlying(T, path, p)

\* The operations of a bare proxy h (all const members): operator*, operator->,
\* explicit operator T*, get_pointer, operator T&, value().
HandleOps == {"deref", "arrow", "to_pointer", "get_pointer", "to_reference", "value"}

proxy_available(op, f) ==
  CASE op = "to_reference" -> HasRefConversion(f)
    [] op = "value" -> HasValue(f)
    [] OTHER -> TRUE

proxy_apply(op, h) ==
  CASE op = "deref" -> Access("reference", h.addr, h.mutable)
    [] op \in {"arrow", "to_pointer", "get_pointer"} -> Access("pointer", h.addr, h.mutable)
    [] OTHER ->
         LET r == IF op = "value" \/ HasExplicitRefConversion(h.fam)
                  THEN value(h.addr) ELSE Ok(h.addr)
         IN  IF r.exc # "none" THEN Failed(r.exc)
             ELSE Access("reference", r.ptr, h.mutable)

\* The value category and constness of a wrapper argument.
SrcCats == {"lvalue", "const_lvalue", "rvalue", "const_rvalue"}

\* The constructors (assignment operators) that take a wrapper:
\*   copy             propagate_const(propagate_const const&) = delete
\*   move             propagate_const(propagate_const&&) = default
\*   template_lvalue  template <U> propagate_const(propagate_const<U>&)
\*   template_rvalue  template <U> propagate_const(propagate_const<U>&&)
\* propagate_const(U&&) is disabled for wrapper arguments.
Candidates == {"copy", "move", "template_lvalue", "template_rvalue"}
Deleted(c) == c = "copy"

\* Can the parameter bind an argument of category cat (same: source and
\* destination are one wrapper type).  A const& binds everything, a && only a
\* non-const rvalue, propagate_const<U>& only a non-const lvalue (U is not
\* deduced as const).
Viable_without_lvalue_template(c, cat, same) ==
  CASE c = "copy" -> same
    [] c = "move" -> same /\ cat = "rvalue"
    [] c = "template_lvalue" -> FALSE
    [] OTHER -> cat = "rvalue"
Viable(c, cat, same) ==
  CASE c = "copy" -> same
    [] c = "move" -> same /\ cat = "rvalue"
    [] c = "template_lvalue" -> cat = "lvalue"
    [] OTHER -> cat = "rvalue"

\* Overload ranking, smaller is better: binding an rvalue reference or a less
\* cv-qualified reference beats binding a const&, and a non-template beats a
\* template with the same conversions.
Rank(c) ==
  CASE c = "move" -> 1
    [] c = "template_rvalue" -> 2
    [] c = "template_lvalue" -> 3
    [] OTHER -> 4

resolve(cat, same) ==
  LET viable == {c \in Candidates : Viable(c, cat, same)}
  IN  IF viable = {} THEN "none"
      ELSE CHOOSE c \in viable : \A o \in viable : Rank(c) <= Rank(o)

\* The wrapper types of one program: proxies of one header over X or X const.
PCKinds ==
  { [s \in Slots |-> Type(k[s], TRUE, FALSE, ec)] :
      k \in {l \in Layouts : \A s \in Slots : l[s] \in PCFamilies},
      ec \in BOOLEAN }

\* No wrapper constructed yet.
InitPCLife ==
  /\ val = [a \in Addr |-> 0]
  /\ kind \in PCKinds
  /\ alive = {}
  /\ target = [s \in Slots |-> Null]
  /\ last = NoOp

\* propagate_const<T> v = i;   propagate_const(U&&) with U = X&: t(i)
PCCtorRef(s, a) ==
  /\ s \notin alive
  /\ LET r == construct_from_ref(fam(s), a) IN
       /\ Construct(s, r)
       /\ last' = Did("pc_ctor_ref", s, 0, a, r.exc, r.ptr)
  /\ UNCHANGED <<val, kind>>

\* propagate_const<T> v;   propagate_const() = default
PCCtorDefault(s) ==
  /\ s \notin alive
  /\ HasDefaultCtor(fam(s))
  /\ LET r == construct_default(fam(s)) IN
       /\ Construct(s, r)
       /\ last' = Did("pc_ctor_default", s, 0, 0, r.exc, r.ptr)
  /\ UNCHANGED <<val, kind>>

\* propagate_const<T> d = s;  d(s);  d(std::move(s));  with s of category cat.
\* The selected constructor initialises t from s.t, which copies the address
\* (the proxies' own copy and move constructors are the implicit ones).
PCCtorWrapper(d, s, cat) ==
  /\ d \notin alive /\ s \in alive /\ d # s
  /\ kind[d].pc /\ kind[s].pc
  /\ Conversion(fam(d), fam(s)) # "none"
  /\ LET c == resolve(cat, fam(d) = fam(s)) IN
       IF c = "none" \/ Deleted(c)
       THEN /\ last' = Did("pc_ctor", d, s, cat, "ill_formed", c)
            /\ UNCHANGED <<alive, target>>
       ELSE LET r == construct_from_proxy(fam(d), fam(s), target[s]) IN
              /\ Construct(d, r)
              /\ last' = Did("pc_ctor", d, s, cat, r.exc, c)
  /\ UNCHANGED <<val, kind>>

\* d = s;  d = std::move(s);   the assignment templates need is_convertible
PCAssignWrapper(d, s, cat) ==
  /\ d \in alive /\ s \in alive
  /\ kind[d].pc /\ kind[s].pc
  /\ Conversion(fam(d), fam(s)) = "implicit"
  /\ LET c == resolve(cat, fam(d) = fam(s)) IN
       IF c = "none" \/ Deleted(c)
       THEN /\ last' = Did("pc_assign", d, s, cat, "ill_formed", c)
            /\ UNCHANGED target
       ELSE /\ target' = reseat(target, d, target[s])
            /\ last' = Did("pc_assign", d, s, cat, "none", c)
  /\ UNCHANGED <<val, kind, alive>>

\* *v, v->, get_pointer(v), static_cast<X*>(v), X& r = v, const_type c = v,
\* T& u = v, get_underlying(v), through a const or a non-const path
PCAccess(s, op, path) ==
  /\ s \in alive
  /\ kind[s].pc
  /\ pc_available(op, kind[s], path)
  /\ \E r \in NullDereference(pc_apply(op, kind[s], path, target[s])) :
       last' = Did("pc_access", s, 0, [op |-> op, path |-> path, via |-> "wrapper"],
                   r.exc, r)
  /\ UNCHANGED <<val, kind, alive, target>>

\* an operation of the proxy the previous expression returned
HandleAccess(op) ==
  /\ last.op = "pc_access"
  /\ last.exc = "none"
  /\ last.res.kind = "proxy"
  /\ proxy_available(op, last.res.fam)
  /\ \E r \in NullDereference(proxy_apply(op, last.res)) :
       last' = Did("handle_access", last.dst, 0,
                   [op |-> op, path |-> last.arg.path, via |-> last.arg.op],
                   r.exc, r)
  /\ UNCHANGED <<val, kind, alive, target>>

\* the wrapper goes out of scope
PCDestroy(s) ==
  /\ s \in alive
  /\ alive' = alive \ {s}
  /\ target' = [target EXCEPT ![s] = Null]
  /\ last' = Did("pc_destroy", s, 0, 0, "none", 0)
  /\ UNCHANGED <<val, kind>>

NextPCLife ==
  \/ \E s \in Slots, a \in Addr : PCCtorRef(s, a)
  \/ \E s \in Slots : PCCtorDefault(s)
  \/ \E d, s \in Slots, cat \in SrcCats : PCCtorWrapper(d, s, cat)
  \/ \E d, s \in Slots, cat \in SrcCats : PCAssignWrapper(d, s, cat)
  \/ \E s \in Slots : PCDestroy(s)

SpecPCLife == InitPCLife /\ [][NextPCLife]_vars

\* The wrappers of one program, constructed and bound: the accessors and
\* conversions change none of them.
InitPC ==
  /\ val = [a \in Addr |-> 0]
  /\ kind \in PCKinds
  /\ alive = Slots
  /\ target \in [Slots -> Ptr]
  /\ \A s \in Slots : kind[s].fam \in NonOptional => target[s] # Null
  /\ last = NoOp

NextPC ==
  \/ \E s \in Slots, op \in PCOps, path \in Paths : PCAccess(s, op, path)
  \/ \E op \in HandleOps : HandleAccess(op)

SpecPC == InitPC /\ [][NextPC]_vars

\* ------------------------------------------------- access to the referent
\* *v = x;  writes through the T& operator* returns;  T& r = v; r = x;
\* writes through the implicit conversion to T& of view (operator T&) and
\* jrt::view (operator U&).  Both return *target.
WriteForms == {"deref", "conversion"}
HasImplicitRefConversion(f) == f \in {"view", "jrt_view"}

\* the assignment to the object the returned reference denotes
assign_through_copy(v, p, x) == v
assign_through(v, p, x) == [v EXCEPT ![p] = x]

\* *v = x;  /  T& r = v; r = x;   Through an empty optional the reference is
\* *nullptr, undefined: the build traps or the store is dropped.
WriteThrough(s, x, form) ==
  /\ s \in alive
  /\ form = "conversion" => HasImplicitRefConversion(fam(s))
  /\ IF has_value(target[s])
     THEN /\ val' = assign_through(val, get_pointer(target[s]), x)
          /\ last' = Did("write", s, 0, x, "none", form)
     ELSE /\ val' = val
          /\ \E e \in {"crash", "none"} : last' = Did("write_null", s, 0, x, e, form)
  /\ UNCHANGED <<kind, alive, target>>

\* T y = *v;   Through an empty optional: undefined, the build traps or reads
\* anything.
ReadThrough(s) ==
  /\ s \in alive
  /\ IF has_value(target[s])
     THEN last' = Did("read", s, 0, 0, "none", deref(val, get_pointer(target[s])))
     ELSE \E y \in Val, e \in {"crash", "none"} :
            last' = Did("read_null", s, 0, 0, e, y)
  /\ UNCHANGED <<val, kind, alive, target>>

\* value_or: optional_view, optional_indirect, gsl::optional_ref and
\* jrt::optional_view declare it.
HasValueOr(f) == HasValue(f) \/ f = "jrt_optional_view"

\* static_cast<T>(std::forward<U>(default_value)): the default, of any type
\* U, converted to the referent's type; a value outside the range of T is
\* reduced to it.
to_value_type(d) == d % (MaxVal + 1)

\* target ? *target : static_cast<T>(std::forward<U>(default_value)),
\* returned by value
value_or_default(v, p, d) == to_value_type(d)
value_or(v, p, d) ==
  IF has_value(p) THEN deref(v, p) ELSE to_value_type(d)

\* T y = o.value_or(d);
ValueOr(s, d) ==
  /\ s \in alive
  /\ HasValueOr(fam(s))
  /\ last' = Did("value_or", s, 0, d, "none", value_or(val, target[s], d))
  /\ UNCHANGED <<val, kind, alive, target>>

NextWrite ==
  \/ \E s \in Slots, x \in Val, form \in WriteForms : WriteThrough(s, x, form)
  \/ \E s \in Slots : ReadThrough(s)
  \/ \E s \in Slots, d \in 0..(2 * MaxVal + 1) : ValueOr(s, d)

SpecWrite == InitCmp /\ [][NextWrite]_vars

\* ---------------------------------------------------------------- ordering
\* The classes that declare operator<, >, <=, >=: between two proxies of one
\* class, and between observer and observer_ptr.
HasOrder(f, g) ==
  /\ f \notin {"gsl_observer", "gsl_retained"}
  /\ f = g \/ {f, g} = {"observer", "observer_ptr"}

\* operator<: std::less<common_type_t<T1*, T2*>>()(get_pointer(lhs),
\* get_pointer(rhs)), the total order of the addresses, nullptr first;
\* gsl::optional_ref: !rhs ? false : !lhs ? true : *lhs < *rhs.
lt_proxy_by_value(v, f, p, q) ==
  IF ~has_value(q) THEN FALSE
  ELSE IF ~has_value(p) THEN TRUE
  ELSE deref(v, p) < deref(v, q)
lt_proxy(v, f, p, q) ==
  IF f = "gsl_optional_ref"
  THEN IF has_value(q) = FALSE THEN FALSE
       ELSE IF has_value(p) = FALSE THEN TRUE
       ELSE deref(v, p) < deref(v, q)
  ELSE get_pointer(p) < get_pointer(q)

\* operator>: rhs < lhs; gsl::optional_ref: !lhs ? false : !rhs ? true : *lhs > *rhs.
gt_proxy(v, f, p, q) ==
  IF f = "gsl_optional_ref"
  THEN IF has_value(p) = FALSE THEN FALSE
       ELSE IF has_value(q) = FALSE THEN TRUE
       ELSE deref(v, p) > deref(v, q)
  ELSE lt_proxy(v, f, q, p)

\* operator<=: !(rhs < lhs); gsl::optional_ref: !lhs ? true : !rhs ? false : *lhs <= *rhs.
le_proxy(v, f, p, q) ==
  IF f = "gsl_optional_ref"
  THEN IF has_value(p) = FALSE THEN TRUE
       ELSE IF has_value(q) = FALSE THEN FALSE
       ELSE deref(v, p) <= deref(v, q)
  ELSE ~lt_proxy(v, f, q, p)

\* operator>=: !(lhs < rhs); gsl::optional_ref: !rhs ? true : !lhs ? false : *lhs >= *rhs.
ge_proxy(v, f, p, q) ==
  IF f = "gsl_optional_ref"
  THEN IF has_value(q) = FALSE THEN TRUE
       ELSE IF has_value(p) = FALSE THEN FALSE
       ELSE deref(v, p) >= deref(v, q)
  ELSE ~lt_proxy(v, f, p, q)

\* opt < sentinel (side "lhs": the proxy on the left) and sentinel < opt.
\* gsl::optional_ref against nullopt: false and bool(opt); observer_ptr
\* against nullptr: std::less<T*>() of the held pointer and nullptr.
HasSentinelOrder(f) == f \in {"gsl_optional_ref", "observer_ptr"}
le_empty(f, p, side) ==
  IF side = "lhs" THEN ~has_value(p) ELSE TRUE
lt_empty(f, p, side) ==
  IF f = "gsl_optional_ref"
  THEN IF side = "lhs" THEN FALSE ELSE has_value(p)
  ELSE IF side = "lhs" THEN get_pointer(p) < Null ELSE Null < get_pointer(p)

\* std::set<X>::find(key) over the stored proxies S: the first stored proxy
\* not less than key, when key is not less than it; Null when there is none
\* (end()).  The result is the address the found proxy holds.
set_find(v, f, t, S, key) ==
  LET notLess == {s \in S : ~lt_proxy(v, f, t[s], key)}
      first == {s \in notLess : \A d \in notLess : ~lt_proxy(v, f, t[d], t[s])}
      hit == {s \in first : ~lt_proxy(v, f, key, t[s])}
  IN  IF hit = {} THEN [found |-> FALSE, ptr |-> Null]
      ELSE [found |-> TRUE, ptr |-> t[CHOOSE s \in hit : TRUE]]

\* One program evaluates the relational operators on the proxies a and b and
\* on a key proxy of the class of a, made from the referent at address c
\* (empty when c is Null), which it also looks up in a set of a and, when b
\* is of the class of a, b:
\* a < b, b < a, a > b, a <= b, a >= b, a == b, a < X(c), X(c) < b,
\* std::set<X>{a, b}.find(c)
OrderProxies(a, b, c) ==
  /\ last = NoOp
  /\ a \in alive /\ b \in alive
  /\ HasOrder(fam(a), fam(b))
  /\ c = Null => fam(a) \in Optional
  /\ LET f == fam(a)
         p == target[a]
         q == target[b]
         S == IF fam(a) = fam(b) THEN {a, b} ELSE {a}
     IN  last' = Did("order", a, b, c, "none",
                     [lt |-> lt_proxy(val, f, p, q),
                      tl |-> lt_proxy(val, f, q, p),
                      gt |-> gt_proxy(val, f, p, q),
                      le |-> le_proxy(val, f, p, q),
                      ge |-> ge_proxy(val, f, p, q),
                      eq |-> eq_proxy(val, f, p, q),
                      lt_key |-> lt_proxy(val, f, p, c),
                      key_lt |-> lt_proxy(val, f, c, q),
                      stored |-> {target[s] : s \in S},
                      find |-> set_find(val, f, target, S, c)])
  /\ UNCHANGED <<val, kind, alive, target>>

\* o < nullopt  /  nullopt < o
OrderEmpty(s, side) ==
  /\ last = NoOp
  /\ s \in alive
  /\ HasSentinelOrder(fam(s))
  /\ last' = Did("order_empty", s, 0, 0, "none",
                 [lt |-> lt_empty(fam(s), target[s], side), side |-> side])
  /\ UNCHANGED <<val, kind, alive, target>>

\* std::hash<T*> and std::hash<T> of the standard library: some function of
\* the pointer or the value, the same at every call.  Two are modelled: the
\* identity, and a mixing one under which distinct inputs can collide.
HashImpls == {"identity", "mixing"}
std_hash(impl, x) == IF impl = "identity" THEN x ELSE (x * x + 1) % 3

\* std::hash<X>::operator(): hash<T*>()(get_pointer(v)); gsl::retained
\* hashes &*r; gsl::optional_ref: bool(opt) ? hash<T>()(*opt) :
\* hash<void*>()(nullptr).
hash_proxy_by_address(impl, v, f, p) == std_hash(impl, get_pointer(p))
hash_proxy(impl, v, f, p) ==
  IF f = "gsl_optional_ref"
  THEN IF has_value(p) THEN std_hash(impl, deref(v, p)) ELSE std_hash(impl, Null)
  ELSE std_hash(impl, get_pointer(p))

\* hash(a), hash(b) and a == b for two proxies of one class, or, wrapped, for
\* two propagate_const wrappers holding them: std::hash<propagate_const<T>>
\* is hash<T>()(get_underlying(pc)) and operator== compares
\* get_underlying(lhs) with get_underlying(rhs).
HashProxies(a, b, impl, wrapped) ==
  /\ last = NoOp
  /\ a \in alive /\ b \in alive
  /\ fam(a) = fam(b)
  /\ wrapped => fam(a) \in PCFamilies
  /\ LET p == IF wrapped THEN get_underlying(kind[a], "const", target[a]).addr
              ELSE target[a]
         q == IF wrapped THEN get_underlying(kind[b], "const", target[b]).addr
              ELSE target[b]
     IN  last' = Did("hash", a, b, impl, "none",
                     [eq |-> eq_proxy(val, fam(a), p, q),
                      lhs |-> hash_proxy(impl, val, fam(a), p),
                      rhs |-> hash_proxy(impl, val, fam(b), q),
                      wrapped |-> wrapped])
  /\ UNCHANGED <<val, kind, alive, target>>

\* The six relational operators of gsl::optional_ref, each written out on its
\* own, for two operands l and r of which one is an optional_ref (kind
\* "opt", holding ptr) and the other an optional_ref, nullopt or a plain
\* value x of the element type:
\*   opt < nullopt: false          nullopt < opt: bool(opt)
\*   opt <= nullopt: !opt          nullopt <= opt: true
\*   opt > nullopt: bool(opt)      nullopt > opt: false
\*   opt >= nullopt: true          nullopt >= opt: !opt
\*   opt == value: bool(opt) ? *opt == value : false     != : true
\*   opt < value:  bool(opt) ? *opt < value : true       <= : true
\*   opt > value:  bool(opt) ? *opt > value : false      >= : false
\*   value < opt:  bool(opt) ? value < *opt : false      <= : false
\*   value > opt:  bool(opt) ? value > *opt : true       >= : true
Operand(k, p, x) == [kind |-> k, ptr |-> p, x |-> x]
gsl_compare_always(op, v, l, r) == TRUE
gsl_compare(op, v, l, r) ==
  LET f == "gsl_optional_ref" IN
  CASE l.kind = "opt" /\ r.kind = "opt" ->
         CASE op = "==" -> eq_proxy(v, f, l.ptr, r.ptr)
           [] op = "!=" -> ne_proxy(v, f, l.ptr, r.ptr)
           [] op = "<" -> lt_proxy(v, f, l.ptr, r.ptr)
           [] op = "<=" -> le_proxy(v, f, l.ptr, r.ptr)
           [] op = ">" -> gt_proxy(v, f, l.ptr, r.ptr)
           [] OTHER -> ge_proxy(v, f, l.ptr, r.ptr)
    [] l.kind = "opt" /\ r.kind = "nullopt" ->
         CASE op = "==" -> eq_empty(f, l.ptr)
           [] op = "!=" -> ne_empty(f, l.ptr)
           [] op = "<" -> lt_empty(f, l.ptr, "lhs")
           [] op = "<=" -> le_empty(f, l.ptr, "lhs")
           [] op = ">" -> has_value(l.ptr)
           [] OTHER -> TRUE
    [] l.kind = "nullopt" ->
         CASE op = "==" -> eq_empty(f, r.ptr)
           [] op = "!=" -> ne_empty(f, r.ptr)
           [] op = "<" -> lt_empty(f, r.ptr, "rhs")
           [] op = "<=" -> le_empty(f, r.ptr, "rhs")
           [] op = ">" -> FALSE
           [] OTHER -> ~has_value(r.ptr)
    [] l.kind = "opt" /\ r.kind = "value" ->
         CASE op = "==" -> IF has_value(l.ptr) THEN deref(v, l.ptr) = r.x ELSE FALSE
           [] op = "!=" -> IF has_value(l.ptr) THEN deref(v, l.ptr) # r.x ELSE TRUE
           [] op = "<" -> IF has_value(l.ptr) THEN deref(v, l.ptr) < r.x ELSE TRUE
           [] op = "<=" -> IF has_value(l.ptr) THEN deref(v, l.ptr) <= r.x ELSE TRUE
           [] op = ">" -> IF has_value(l.ptr) THEN deref(v, l.ptr) > r.x ELSE FALSE
           [] OTHER -> IF has_value(l.ptr) THEN deref(v, l.ptr) >= r.x ELSE FALSE
    [] OTHER ->
         CASE op = "==" -> IF has_value(r.ptr) THEN l.x = deref(v, r.ptr) ELSE FALSE
           [] op = "!=" -> IF has_value(r.ptr) THEN l.x # deref(v, r.ptr) ELSE TRUE
           [] op = "<" -> IF has_value(r.ptr) THEN l.x < deref(v, r.ptr) ELSE FALSE
           [] op = "<=" -> IF has_value(r.ptr) THEN l.x <= deref(v, r.ptr) ELSE FALSE
           [] op = ">" -> IF has_value(r.ptr) THEN l.x > deref(v, r.ptr) ELSE TRUE
           [] OTHER -> IF has_value(r.ptr) THEN l.x >= deref(v, r.ptr) ELSE TRUE

\* One program evaluates all six operators on a gsl::optional_ref a and
\* another operand (the optional_ref b, nullopt, or the value x), in both
\* orders: a op r ("fwd") and r op a ("rev").
GslRelational(a, rk, b, x) ==
  /\ last = NoOp
  /\ a \in alive /\ b \in alive
  /\ fam(a) = "gsl_optional_ref"
  /\ CASE rk = "opt" -> fam(b) = "gsl_optional_ref" /\ x = 0
       [] rk = "nullopt" -> b = a /\ x = 0
       [] OTHER -> b = a
  /\ LET l == Operand("opt", target[a], 0)
         r == Operand(rk, IF rk = "opt" THEN target[b] ELSE Null, x)
         ops == {"==", "!=", "<", "<=", ">", ">="}
     IN  last' = Did("gsl_relational", a, b, r, "none",
                     [fwd |-> [op \in ops |-> gsl_compare(op, val, l, r)],
                      rev |-> [op \in ops |-> gsl_compare(op, val, r, l)]])
  /\ UNCHANGED <<val, kind, alive, target>>

NextOrd ==
  \/ \E a, b \in Slots, c \in Ptr : OrderProxies(a, b, c)
  \/ \E s \in Slots, side \in Sides : OrderEmpty(s, side)
  \/ \E a, b \in Slots, impl \in HashImpls, w \in BOOLEAN : HashProxies(a, b, impl, w)
  \/ \E a, b \in Slots, rk \in {"opt", "nullopt", "value"}, x \in Val :
       GslRelational(a, rk, b, x)

SpecOrd == InitCmp /\ [][NextOrd]_vars

\* ------------------------------------------------------------------- swap
\* swap(v, w) for two propagate_const<T>: propagate_const::swap calls
\* detail::swap_(t, other.t), whose unqualified swap(lhs, rhs) finds the swap
\* of the wrapped proxies, which swaps their address members.
PCSwap(a, b) ==
  /\ a \in alive
  /\ b \in alive
  /\ kind[a].pc /\ kind[b].pc
  /\ kind[a] = kind[b]
  /\ Swappable(fam(a))
  /\ target' = swap_targets(target, a, b)
  /\ last' = Did("pc_swap", a, b, 0, "none", 0)
  /\ UNCHANGED <<val, kind, alive>>

NextSwap ==
  \/ \E a, b \in Slots : Swap(a, b)
  \/ \E a, b \in Slots : PCSwap(a, b)

\* Bound bare proxies, or bound wrappers, swapped any number of times.
SpecSwap == (InitCmp \/ InitPC) /\ [][NextSwap]_vars

\* ------------------------------------------------- a freshly bound proxy
\* The ways to bind a new proxy to the object x: X v = x (X v(x)), X v(&x),
\* auto v = make_x(x).  Every header but observer.hpp's observer_ptr has a
\* factory, and each factory returns the proxy constructed from the reference.
FreshForms == {"ctor_ref", "ctor_ptr", "make"}
HasFactory(f) == f # "observer_ptr"

\* static_cast<T*>(v) exists everywhere but in gsl::optional_ref
\* (gsl::retained: operator T const*).
HasPointerConversion(f) == f # "gsl_optional_ref"

\* X v = x;  followed by what the tests then look at:  the objects y with
\* v == y and those with v != y, &*v, static_cast<T*>(v), and the address of
\* the T& the proxy converts to.  An operator the class does not declare
\* yields the default ({}, Null) and stands for no observation.
Fresh(s, how, x) ==
  /\ s \notin alive
  /\ how = "ctor_ptr" => HasPtrCtor(fam(s))
  /\ how = "make" => HasFactory(fam(s))
  /\ LET f == fam(s)
         r == IF how = "ctor_ptr" THEN construct_from_ptr(f, x)
              ELSE construct_from_ref(f, x)
         h == ProxyHandle(f, kind[s], r.ptr)
         cmp == HasReferentCompare(f)
     IN
       /\ Construct(s, r)
       /\ last' = Did("fresh", s, 0, how, r.exc,
            [x |-> x,
             eq |-> {y \in Addr : cmp /\ eq_referent(val, f, r.ptr, y)},
             ne |-> {y \in Addr : cmp /\ ne_referent(val, f, r.ptr, y)},
             addr |-> proxy_apply("deref", h).addr,
             ptr |-> IF HasPointerConversion(f)
                     THEN proxy_apply("to_pointer", h).addr ELSE Null,
             ref |-> IF HasImplicitRefConversion(f) \/ HasExplicitRefConversion(f)
                     THEN proxy_apply("to_reference", h).addr ELSE Null])
  /\ UNCHANGED <<val, kind>>

\* An rvalue argument: a prvalue or an xvalue of type T, or an xvalue of
\* type T const (std::move of a const object).
RvalueCats == {"prvalue", "xvalue", "const_xvalue"}

\* The headers that declare X(T&&) = delete, and those whose factory has a
\* make_x(T&&) = delete overload.
DeletesRvalue(f, how) ==
  IF how = "make"
  THEN f \in {"observer", "gsl_observer", "gsl_retained"}
  ELSE f \in {"observer", "observer_ptr", "gsl_observer", "gsl_retained", "jrt_view"}

\* Overload resolution of  X<E> v(rvalue)  and  make_x(rvalue),  ec: E is
\* const-qualified.  X(E& r) binds an rvalue when E& is a reference to const;
\* make_x(T& r) deduces T = T0 const from a const xvalue and binds it.  A
\* deleted overload taking E&& (T&&) binds every rvalue better and makes the
\* call ill-formed.
binds_rvalue(f, ec, cat, how) ==
  /\ ~DeletesRvalue(f, how)
  /\ IF how = "make" THEN cat = "const_xvalue" ELSE ec

\* X<E> v(f());  X<E> v(std::move(i));  auto v = make_x(std::move(i));  for
\* the class of slot s.  An accepted call yields a proxy that holds the
\* address of the rvalue; the model does not follow that proxy further.
CtorTemporary(s, ec, cat, how) ==
  /\ s \notin alive
  /\ how \in {"ctor_ref", "make"}
  /\ how = "make" => HasFactory(fam(s)) /\ ec = (cat = "const_xvalue")
  /\ last' = Did("ctor_temporary", s, 0, [ec |-> ec, cat |-> cat, how |-> how],
                 IF binds_rvalue(fam(s), ec, cat, how) THEN "none" ELSE "ill_formed",
                 0)
  /\ UNCHANGED <<val, kind, alive, target>>

NextFresh ==
  \/ \E s \in Slots, how \in FreshForms, x \in Addr : Fresh(s, how, x)
  \/ \E s \in Slots, x \in Val, form \in WriteForms : WriteThrough(s, x, form)
  \/ \E s \in Slots : Destroy(s)

\* Proxies are bound, written through and destroyed.
SpecFresh == Init /\ [][NextFresh]_vars

NextTemporary ==
  \/ \E s \in Slots, ec \in BOOLEAN, cat \in RvalueCats, how \in FreshForms :
       CtorTemporary(s, ec, cat, how)
  \/ \E s \in Slots, a \in Addr : CtorRef(s, a)
  \/ \E s \in Slots : Destroy(s)

\* Proxies are bound to lvalues, and attempts are made to bind them to rvalues.
SpecTemporary == Init /\ [][NextTemporary]_vars

\* --------------------------------------------------------- copy and move
\* Bare proxies, or propagate_const wrappers, are bound (X v = i; X v; and the
\* end of a scope are the same for both), copied, moved and assigned.
NextCopy ==
  \/ \E s \in Slots, a \in Addr : CtorRef(s, a)
  \/ \E s \in Slots : CtorDefault(s)
  \/ \E d, s \in Slots, cat \in Categories : CtorProxy(d, s, cat)
  \/ \E d, s \in Slots, cat \in Categories : AssignProxy(d, s, cat)
  \/ \E d, s \in Slots, cat \in SrcCats : PCCtorWrapper(d, s, cat)
  \/ \E d, s \in Slots, cat \in SrcCats : PCAssignWrapper(d, s, cat)
  \/ \E s \in Slots : Destroy(s)

SpecCopy == (Init \/ InitPCLife) /\ [][NextCopy]_vars

\* ------------------------------------- the wrapper beside the bare proxy
\* The overload one expression selects when its left operand is a bare proxy
\* of class f and its right operand another proxy of the class ("wrapper",
\* "proxy": in the bare program both are bare proxies) or a referent:
\* "address" (the operators of the proxy header, on the held addresses),
\* "value" (a built-in operator on the referents, reached through view's
\* implicit operator T&) or "ill_formed".  "hash" is std::hash<P>, "bool" is
\* bool(p): the explicit operator bool of the optional classes, the
\* conversion through T& of view.
bare_overload(f, op, other) ==
  CASE op = "hash" -> "address"
    [] op = "bool" -> IF f \in Optional THEN "address"
                      ELSE IF f = "view" THEN "value" ELSE "ill_formed"
    [] other # "referent" -> "address"
    [] op \in {"==", "!="} -> IF HasReferentCompare(f) THEN "address" ELSE "ill_formed"
    [] OTHER -> IF f \in {"observer", "observer_ptr"} THEN "address"
                ELSE IF f = "view" THEN "value" ELSE "ill_formed"

\* The same expression with a propagate_const<P> as the left operand.
\*   ==, != against a wrapper: get_underlying(lhs) == get_underlying(rhs);
\*   ==, != against a T2 that is not T1 (a referent): get_underlying(lhs) == rhs;
\*   <, <=, >, >= are declared for two wrappers only;
\*   std::hash<propagate_const<T>>: hash<T>()(get_underlying(pc));
\*   explicit operator bool needs is_constructible<bool, T> and
\*   !is_convertible<T, bool>: bool{t}.
\* Where the wrapper declares nothing, the expression is left with the
\* implicit conversions of the wrapper: to reference_type, for view.
pc_overload_undeclared(f, op, other) == "ill_formed"
pc_overload(f, op, other) ==
  CASE op = "hash" -> bare_overload(f, op, other)
    [] op = "bool" -> IF bare_overload(f, op, other) = "address" THEN "address"
                      ELSE "ill_formed"
    [] other = "wrapper" -> bare_overload(f, op, "proxy")
    [] other = "referent" /\ op \in {"==", "!="} -> bare_overload(f, op, other)
    [] op \in {"==", "!="} -> "ill_formed"
    [] OTHER -> IF f = "view" THEN "value" ELSE "ill_formed"

\* What the selected overload returns for the proxy holding p and the other
\* operand: a proxy holding q, or the referent at address q ("none" where
\* there is no overload to select).
compare_as(how, op, other, v, f, p, q) ==
  CASE how = "ill_formed" -> "none"
    [] how = "address" ->
         CASE op = "==" -> IF other = "referent" THEN eq_referent(v, f, p, q)
                           ELSE eq_proxy(v, f, p, q)
           [] op = "!=" -> IF other = "referent" THEN ne_referent(v, f, p, q)
                           ELSE ne_proxy(v, f, p, q)
           [] op = "<" -> lt_proxy(v, f, p, q)
           [] op = "<=" -> le_proxy(v, f, p, q)
           [] op = ">" -> gt_proxy(v, f, p, q)
           [] op = ">=" -> ge_proxy(v, f, p, q)
           [] op = "hash" -> [i \in HashImpls |-> hash_proxy(i, v, f, p)]
           [] OTHER -> has_value(p)
    [] OTHER ->
         CASE op = "==" -> deref(v, p) = deref(v, q)
           [] op = "!=" -> deref(v, p) # deref(v, q)
           [] op = "<" -> deref(v, p) < deref(v, q)
           [] op = "<=" -> deref(v, p) <= deref(v, q)
           [] op = ">" -> deref(v, p) > deref(v, q)
           [] op = ">=" -> deref(v, p) >= deref(v, q)
           [] OTHER -> deref(v, p) # 0

\* One program evaluates  a op b  for every operator, hash(a) and bool(a),
\* once with a bare proxy a and once with a propagate_const wrapper holding
\* the same address; the other operand is a wrapper (a bare proxy, in the
\* bare program), a bare proxy, or the referent *b.
TwinObserve(a, b, other) ==
  /\ last = NoOp
  /\ a \in alive /\ b \in alive
  /\ fam(a) \in PCFamilies
  /\ fam(a) = fam(b)
  /\ other = "referent" => target[b] # Null
  /\ LET f == fam(a)
         p == target[a]
         w == get_underlying(Type(f, TRUE, FALSE, kind[a].ec), "const", p).addr
         q == target[b]
     IN  last' = Did("twin_observe", a, b, other, "none",
                     [op \in {"==", "!=", "<", "<=", ">", ">=", "hash", "bool"} |->
                        LET hb == bare_overload(f, op, other)
                            hw == pc_overload(f, op, other)
                        IN  [bare |-> [how |-> hb, value |->
                                         compare_as(hb, op, other, val, f, p, q)],
                             wrapped |-> [how |-> hw, value |->
                                            compare_as(hw, op, other, val, f, w, q)]]])
  /\ UNCHANGED <<val, kind, alive, target>>

\* One step of two programs run side by side, one on bare proxies and one on
\* propagate_const wrappers holding the same addresses (target):
\*   "ref"    d = x;            operator=(U&&): t = std::forward<U>(p)
\*   "copy"   d = s;            operator=(propagate_const<U>&): t = p.t
\*   "move"   d = std::move(s); operator=(propagate_const&&) = default
\*   "swap"   swap(d, s);       detail::swap_(t, other.t)
\*   "empty"  d = {};           the move assignment from propagate_const()
\* The state goes on as the bare program; the addresses both programs hold
\* after the step are recorded.
TwinStep(op, d, s, x) ==
  /\ last = NoOp
  /\ d \in alive /\ s \in alive
  /\ fam(d) \in PCFamilies /\ fam(s) \in PCFamilies
  /\ CASE op = "ref" -> s = d /\ AssignableRef(fam(d))
       [] op = "empty" -> s = d /\ x = 1 /\ AssignableEmpty(fam(d))
       [] op = "swap" -> x = 1 /\ fam(d) = fam(s) /\ Swappable(fam(d))
       [] OTHER -> x = 1 /\ Assignable(fam(d), fam(s), op)
  /\ LET f == fam(d)
         c == resolve(IF op = "move" THEN "rvalue" ELSE "lvalue", fam(d) = fam(s))
         bare ==
           CASE op = "ref" -> reseat(target, d, construct_from_ref(f, x).ptr)
             [] op = "empty" -> reseat(target, d, construct_default(f).ptr)
             [] op = "swap" -> swap_targets(target, d, s)
             [] OTHER -> reseat(target, d,
                                construct_from_proxy(f, fam(s), target[s]).ptr)
         wrapped ==
           CASE op = "ref" -> reseat(target, d, construct_from_ref(f, x).ptr)
             [] op = "empty" -> reseat(target, d, construct_default(f).ptr)
             [] op = "swap" -> swap_targets(target, d, s)
             [] OTHER -> IF c = "none" \/ Deleted(c) THEN target
                         ELSE reseat(target, d, target[s])
     IN  /\ target' = bare
         /\ last' = Did("twin_step", d, s, [op |-> op, x |-> x], "none",
                        [bare |-> bare, wrapped |-> wrapped, via |-> c])
  /\ UNCHANGED <<val, kind, alive>>

NextTwin ==
  \/ \E a, b \in Slots, other \in {"wrapper", "proxy", "referent"} :
       TwinObserve(a, b, other)
  \/ \E op \in {"ref", "copy", "move", "swap", "empty"}, d, s \in Slots, x \in Addr :
       TwinStep(op, d, s, x)

\* Bound proxies with any referent values: one observation or one step from
\* every such state.
SpecTwin == InitCmp /\ [][NextTwin]_vars

\* ------------------------------------------------------------ optional_ref
\* A program of optional_refs, of gsl/optional_ref.hpp or of the top-level
\* optional_ref.hpp, none constructed yet.
InitBound ==
  /\ val = [a \in Addr |-> 0]
  /\ \E f \in BoundOnce : kind = [s \in Slots |-> Bare(f)]
  /\ alive = {}
  /\ target = [s \in Slots |-> Null]
  /\ last = NoOp

\* Construction, copying, and every statement that reseats a proxy of a
\* class that declares the operator it needs.
NextBound ==
  \/ \E s \in Slots, a \in Addr : CtorRef(s, a)
  \/ \E s \in Slots : CtorDefault(s)
  \/ \E d, s \in Slots, cat \in Categories : CtorProxy(d, s, cat)
  \/ \E d \in Slots, a \in Addr : AssignRef(d, a)
  \/ \E d, s \in Slots, cat \in Categories : AssignProxy(d, s, cat)
  \/ \E d \in Slots, form \in EmptyForms : AssignEmpty(d, form)
  \/ \E a, b \in Slots : Swap(a, b)
  \/ \E s \in Slots : Destroy(s)

SpecBound == (Init \/ InitBound) /\ [][NextBound]_vars

\* ======================================================================
\* Claims
\* ======================================================================

\* C1: in every reachable state every constructed non-optional proxy
\* (view, indirect, observer, gsl::observer, gsl::retained) holds a non-null
\* address, whatever sequence of constructions, converting constructions,
\* copies, moves, assignments, swaps and casts led there; operator* and
\* operator-> therefore never dereference null.
C1_NonOptionalNeverNull ==
  \A s \in alive : fam(s) \in NonOptional => target[s] # Null

\* a non-optional proxy successfully constructed from an engaged optional
C1_Witness ==
  /\ last.op \in {"ctor_copy", "ctor_move"}
  /\ last.exc = "none"
  /\ last.dst \in alive
  /\ fam(last.dst) \in NonOptional
  /\ fam(last.src) \in Optional

\* C2: constructing a view or an indirect from a null raw pointer or from an
\* empty optional proxy throws invalid_argument and creates no proxy; from a
\* non-null pointer or an engaged optional the new proxy holds exactly the
\* source's address.
C2_NullConstructionThrows ==
  LET d == last.dst
      fromPtr == last.op = "ctor_ptr" /\ fam(d) \in {"view", "indirect"}
      fromOpt == /\ last.op \in {"ctor_copy", "ctor_move"}
                 /\ fam(d) \in {"view", "indirect"}
                 /\ fam(last.src) \in Optional
  IN  (fromPtr \/ fromOpt) =>
        IF last.arg = Null
        THEN last.exc = "invalid_argument" /\ d \notin alive
        ELSE last.exc = "none" /\ d \in alive /\ target[d] = last.arg

\* a view construction from a null pointer has just thrown
C2_Witness ==
  /\ last.op = "ctor_ptr"
  /\ fam(last.dst) = "view"
  /\ last.arg = Null
  /\ last.exc = "invalid_argument"
  /\ last.dst \notin alive

C4_NonOptionalEqualityByAddress ==
  ( /\ last.op = "compare"
    /\ fam(last.dst) \in NonOptional
    /\ fam(last.src) \in NonOptional )
  => /\ last.res.eq <=> target[last.dst] = target[last.src]
     /\ last.res.ne <=> ~last.res.eq

\* two non-optional proxies over distinct referents holding equal values
\* have just compared unequal
C4_Witness ==
  /\ last.op = "compare"
  /\ fam(last.dst) \in NonOptional
  /\ fam(last.src) \in NonOptional
  /\ target[last.dst] # target[last.src]
  /\ val[target[last.dst]] = val[target[last.src]]
  /\ ~last.res.eq
  /\ last.res.ne

AddressOptional == {"optional_view", "optional_indirect", "observer_ptr"}

\* C5: for optional_view, optional_indirect and observer_ptr, compared with
\* one another, with their non-optional counterpart or with a bare referent:
\* two empty optionals are equal, an empty and an engaged one are unequal, two
\* engaged ones are equal iff they hold the same address, and an empty
\* optional is unequal to every referent (an engaged one equals exactly the
\* referent whose address it holds).
C5_OptionalEqualityByAddress ==
  /\ ( /\ last.op = "compare"
       /\ (fam(last.dst) \in AddressOptional \/ fam(last.src) \in AddressOptional) )
     => LET p == target[last.dst]
            q == target[last.src]
        IN  /\ (p = Null /\ q = Null) => last.res.eq
            /\ ((p = Null) # (q = Null)) => ~last.res.eq
            /\ (p # Null /\ q # Null) => (last.res.eq <=> p = q)
            /\ last.res.ne <=> ~last.res.eq
  /\ ( /\ last.op = "compare_referent"
       /\ fam(last.dst) \in AddressOptional )
     => LET p == target[last.dst]
        IN  /\ p = Null => ~last.res.eq
            /\ p # Null => (last.res.eq <=> p = last.arg)
            /\ last.res.ne <=> ~last.res.eq

\* an engaged optional has just compared unequal to a distinct referent that
\* holds the same value as its own
C5_Witness ==
  /\ last.op = "compare_referent"
  /\ fam(last.dst) \in AddressOptional
  /\ target[last.dst] # Null
  /\ target[last.dst] # last.arg
  /\ val[target[last.dst]] = val[last.arg]
  /\ ~last.res.eq

\* C6 as stated: two engaged gsl::optional_ref compare equal iff they refer
\* to the same address, irrespective of the referents' values; two empty ones
\* are equal and an empty and an engaged one are unequal.
C6_OptionalRefEqualityByAddress ==
  (last.op = "compare" /\ fam(last.dst) = "gsl_optional_ref")
  => LET p == target[last.dst]
         q == target[last.src]
     IN  /\ (p = Null /\ q = Null) => last.res.eq
         /\ ((p = Null) # (q = Null)) => ~last.res.eq
         /\ (p # Null /\ q # Null) => (last.res.eq <=> p = q)

\* C6 amended: two engaged gsl::optional_ref compare equal iff the values of
\* their referents are equal (so two references to one object are equal, and
\* so are references to two distinct objects holding equal values); two empty
\* ones are equal and an empty and an engaged one are unequal.
C6_OptionalRefEqualityByValue ==
  (last.op = "compare" /\ fam(last.dst) = "gsl_optional_ref")
  => LET p == target[last.dst]
         q == target[last.src]
     IN  /\ (p = Null /\ q = Null) => last.res.eq
         /\ ((p = Null) # (q = Null)) => ~last.res.eq
         /\ (p # Null /\ q # Null) => (last.res.eq <=> val[p] = val[q])
         /\ (p # Null /\ p = q) => last.res.eq

\* two engaged gsl::optional_ref over distinct objects holding equal values
\* have just compared equal
C6_Witness ==
  /\ last.op = "compare"
  /\ fam(last.dst) = "gsl_optional_ref"
  /\ target[last.dst] # Null
  /\ target[last.src] # Null
  /\ target[last.dst] # target[last.src]
  /\ val[target[last.dst]] = val[target[last.src]]
  /\ last.res.eq

\* C7: for a propagate_const wrapping a proxy to a mutable X, operator*,
\* operator-> and get_pointer grant read-only access to the referent through
\* a const access path and mutable access through a non-const path, and in
\* both cases the address obtained is the address the wrapped proxy holds.
C7_ConstPropagation ==
  ( /\ last.op = "pc_access"
    /\ last.arg.op \in {"deref", "arrow", "get_pointer"}
    /\ ~kind[last.dst].ec
    /\ last.exc = "none" )
  => /\ last.arg.path = "const" => ~last.res.mutable
     /\ last.arg.path = "mutable" => last.res.mutable
     /\ last.res.addr = target[last.dst]

\* a wrapper over a proxy to a mutable X has just been dereferenced through a
\* const path and granted read-only access to the referent of its proxy
C7_Witness ==
  /\ last.op = "pc_access"
  /\ last.arg.op = "deref"
  /\ last.arg.path = "const"
  /\ ~kind[last.dst].ec
  /\ last.exc = "none"
  /\ target[last.dst] # Null
  /\ last.res.addr = target[last.dst]
  /\ ~last.res.mutable

\* the expression starts at a const path to a propagate_const<view<X>>, X mutable
FromConstViewWrapper ==
  /\ last.op \in {"pc_access", "handle_access"}
  /\ last.arg.path = "const"
  /\ fam(last.dst) = "view"
  /\ ~kind[last.dst].ec
  /\ last.exc = "none"
  /\ last.res.kind \in {"reference", "pointer"}

\* C8 as stated: no sequence of public operations starting from a const
\* access path to a propagate_const<view<X>> (dereference, arrow, conversions,
\* get_pointer, get_underlying followed by any operation of the returned
\* proxy) yields mutable access to the X referent.
C8_NoMutableAccessFromConst ==
  FromConstViewWrapper => ~last.res.mutable

\* C8 amended: starting from a const access path to a propagate_const<view<X>>,
\* dereference, arrow, the conversions, get_pointer, and every operation of a
\* proxy a conversion returns, yield read-only access to the X referent;
\* get_underlying is the exception: it returns the wrapped view<X>, whose
\* operations grant mutable access.
C8_NoMutableAccessExceptUnderlying ==
  FromConstViewWrapper =>
    IF last.arg.via = "get_underlying"
    THEN last.res.mutable
    ELSE ~last.res.mutable

\* the const_type proxy a const wrapper converted to has just been
\* dereferenced and granted read-only access
C8_Witness ==
  /\ FromConstViewWrapper
  /\ last.op = "handle_access"
  /\ last.arg.via = "to_const_type"
  /\ last.arg.op = "deref"
  /\ ~last.res.mutable

\* a construction or assignment between two wrappers of one type
SameTypeTransfer(l) ==
  /\ l.op \in {"pc_ctor", "pc_assign"}
  /\ fam(l.dst) = fam(l.src)

\* C9 as stated: no constructor or assignment operator accepts an lvalue
\* propagate_const<T>, const or non-const, and produces a second wrapper
\* holding the same T; between wrappers of one type only move construction
\* and move assignment are available.
C9_NeverCopied ==
  SameTypeTransfer(last) =>
    /\ last.arg \in {"lvalue", "const_lvalue"} => last.exc = "ill_formed"
    /\ last.exc = "none" => last.res = "move"

\* C9 amended: a const propagate_const<T> (lvalue or rvalue) is accepted by no
\* constructor or assignment operator, the deleted copy members are selected;
\* a non-const lvalue is accepted by the converting template taking
\* propagate_const<U>&, which gives the destination the same T and leaves the
\* source intact; a non-const rvalue selects the move members, which do the
\* same.
C9_CopiedFromNonConstLvalueOnly ==
  [][ SameTypeTransfer(last') =>
        LET d == last'.dst
            s == last'.src
        IN  /\ last'.arg \in {"const_lvalue", "const_rvalue"} =>
                 /\ last'.exc = "ill_formed"
                 /\ last'.res = "copy"
                 /\ UNCHANGED <<alive, target>>
            /\ last'.arg = "lvalue" =>
                 /\ last'.exc = "none"
                 /\ last'.res = "template_lvalue"
                 /\ d \in alive'
                 /\ target'[d] = target[s]
                 /\ target'[s] = target[s]
            /\ last'.arg = "rvalue" =>
                 /\ last'.exc = "none"
                 /\ last'.res = "move"
                 /\ d \in alive'
                 /\ target'[d] = target[s]
                 /\ target'[s] = target[s] ]_vars

\* a wrapper has just been copy constructed from a non-const lvalue of its
\* own type: both hold the same bound proxy
C9_Witness ==
  /\ SameTypeTransfer(last)
  /\ last.op = "pc_ctor"
  /\ last.arg = "lvalue"
  /\ last.exc = "none"
  /\ last.dst \in alive /\ last.src \in alive
  /\ target[last.dst] = target[last.src]
  /\ target[last.src] # Null

\* operator* or operator-> has been applied to an empty
\* propagate_const<optional_view<X>>
EmptyOptionalViewDeref ==
  /\ last.op = "pc_access"
  /\ last.arg.op \in {"deref", "arrow"}
  /\ fam(last.dst) = "optional_view"
  /\ target[last.dst] = Null

\* C10 as stated: operator* and operator-> of a propagate_const<optional_view<X>>
\* whose wrapped optional is empty raise the bad-optional-access error of the
\* wrapped type, for both the const and the non-const overload.
C10_EmptyDerefThrows ==
  EmptyOptionalViewDeref => last.exc = "bad_optional_access"

\* C10 amended: on an empty propagate_const<optional_view<X>>, operator->
\* returns the null pointer without raising and operator* dereferences it
\* unchecked (undefined behaviour, no error is raised by the code); the
\* bad-optional-access error of the wrapped type is raised by the explicit
\* conversion to X&, which forwards to value(), for both the const and the
\* non-const overload.
C10_EmptyConversionThrows ==
  /\ EmptyOptionalViewDeref =>
       /\ last.exc # "bad_optional_access"
       /\ last.arg.op = "arrow" =>
            last.exc = "none" /\ last.res.kind = "pointer" /\ last.res.addr = Null
  /\ ( /\ last.op = "pc_access"
       /\ last.arg.op = "to_reference"
       /\ fam(last.dst) = "optional_view" )
     => IF target[last.dst] = Null
        THEN last.exc = "bad_optional_access"
        ELSE last.exc = "none" /\ last.res.addr = target[last.dst]

\* the explicit conversion to X& of an empty propagate_const<optional_view<X>>
\* has just raised bad_optional_access through a const path
C10_Witness ==
  /\ last.op = "pc_access"
  /\ last.arg.op = "to_reference"
  /\ last.arg.path = "const"
  /\ fam(last.dst) = "optional_view"
  /\ last.dst \in alive
  /\ target[last.dst] = Null
  /\ last.exc = "bad_optional_access"

\* a dynamic cast has just been applied to a non-optional proxy
DynamicCastOfNonOptional(fams) ==
  /\ last.op = "dynamic_cast"
  /\ fam(last.src) \in fams

\* C11 as stated: a dynamic cast free function applied to a non-optional proxy
\* (view, indirect, jrt::view) whose referent's dynamic type is not the
\* requested type throws and yields no proxy; when the dynamic type is the
\* requested type it returns a non-optional proxy holding the same address.
C11_DynamicCastThrows ==
  DynamicCastOfNonOptional({"view", "indirect", "jrt_view"}) =>
    IF IsA(DynType(target[last.src]), last.arg)
    THEN /\ last.exc = "none"
         /\ last.dst \in alive
         /\ fam(last.dst) \in NonOptional
         /\ target[last.dst] = target[last.src]
    ELSE /\ last.exc # "none"
         /\ last.dst \notin alive

\* C11 amended: dynamic_view_cast on a view and dynamic_indirect_cast on an
\* indirect throw std::bad_cast and yield no proxy when the referent's dynamic
\* type is not the requested type, and return a non-optional proxy holding the
\* same address when it is; jrt::dynamic_view_cast on a jrt::view never throws
\* and returns a jrt::optional_view, empty on a mismatch and engaged with the
\* same address on a match.
C11_DynamicCastThrowsOrEmpty ==
  /\ DynamicCastOfNonOptional({"view", "indirect"}) =>
       IF IsA(DynType(target[last.src]), last.arg)
       THEN /\ last.exc = "none"
            /\ last.dst \in alive
            /\ fam(last.dst) = fam(last.src)
            /\ target[last.dst] = target[last.src]
       ELSE /\ last.exc = "bad_cast"
            /\ last.dst \notin alive
  /\ DynamicCastOfNonOptional({"jrt_view"}) =>
       /\ last.exc = "none"
       /\ last.dst \in alive
       /\ fam(last.dst) = "jrt_optional_view"
       /\ target[last.dst] =
            IF IsA(DynType(target[last.src]), last.arg)
            THEN target[last.src] ELSE Null

\* dynamic_view_cast<derived_other> of a view to a derived has just thrown
C11_Witness ==
  /\ DynamicCastOfNonOptional({"view"})
  /\ DynType(target[last.src]) = "derived"
  /\ last.arg = "derived_other"
  /\ last.exc = "bad_cast"
  /\ last.dst \notin alive

\* C12: the cast free functions on an optional proxy (optional_view,
\* optional_indirect, jrt::optional_view) never throw: an empty input yields an
\* empty result for static, dynamic and const casts; an engaged input yields an
\* engaged result with the same address, except that a dynamic cast whose
\* referent's dynamic type is not the requested type yields the empty state.
C12_OptionalCastsNeverThrow ==
  ( /\ last.op \in {"static_cast", "dynamic_cast", "const_cast"}
    /\ fam(last.src) \in Optional )
  => /\ last.exc = "none"
     /\ last.dst \in alive
     /\ fam(last.dst) = fam(last.src)
     /\ target[last.dst] =
          IF target[last.src] = Null THEN Null
          ELSE IF /\ last.op = "dynamic_cast"
                  /\ ~IsA(DynType(target[last.src]), last.arg)
               THEN Null
               ELSE target[last.src]

\* dynamic_indirect_cast<derived_other> of an engaged optional_indirect to a
\* derived has just returned an empty optional_indirect
C12_Witness ==
  /\ last.op = "dynamic_cast"
  /\ fam(last.src) = "optional_indirect"
  /\ target[last.src] # Null
  /\ DynType(target[last.src]) = "derived"
  /\ last.arg = "derived_other"
  /\ last.exc = "none"
  /\ last.dst \in alive
  /\ target[last.dst] = Null

\* C13: for optional_view / optional_indirect / jrt::optional_view, from any
\* prior state: default or sentinel construction yields the empty state;
\* assigning a reference x yields the engaged state with o == x and o != y for
\* every other referent y; assigning {} or the empty sentinel yields the empty
\* state again; both assignments stay available to every constructed optional,
\* so the cycle can be repeated any number of times.
C13_EmptyEngagedCycle ==
  /\ [](\A d \in alive :
          fam(d) \in {"optional_view", "optional_indirect", "jrt_optional_view"} =>
            /\ \A x \in Addr : ENABLED AssignRef(d, x)
            /\ \A form \in EmptyForms : ENABLED AssignEmpty(d, form))
  /\ [][ LET d == last'.dst IN
           ( /\ last'.op \in {"ctor_default", "assign_ref", "assign_empty"}
             /\ fam(d) \in {"optional_view", "optional_indirect", "jrt_optional_view"} )
           => /\ last'.exc = "none"
              /\ d \in alive'
              /\ last'.op = "assign_ref" =>
                   /\ has_value(target'[d])
                   /\ eq_referent(val', fam(d), target'[d], last'.arg)
                   /\ \A y \in Addr \ {last'.arg} :
                        ne_referent(val', fam(d), target'[d], y)
              /\ last'.op \in {"ctor_default", "assign_empty"} =>
                   ~has_value(target'[d]) ]_vars

\* C14: for every optional proxy o the three observations agree: o == nullopt
\* is true iff o.has_value() / bool(o) is false iff o holds the null address;
\* o != nullopt is the exact negation, with the sentinel on either side.
C14_EmptyObservationsAgree ==
  last.op = "compare_empty" =>
    /\ last.res.eq <=> ~has_value(target[last.dst])
    /\ has_value(target[last.dst]) <=> target[last.dst] # Null
    /\ last.res.ne <=> ~last.res.eq

\* an engaged gsl::optional_ref has just been compared with the sentinel,
\* written on the left: nullopt == o is false and nullopt != o is true
C14_Witness ==
  /\ last.op = "compare_empty"
  /\ fam(last.dst) = "gsl_optional_ref"
  /\ last.res.side = "rhs"
  /\ target[last.dst] # Null
  /\ ~last.res.eq
  /\ last.res.ne

\* C15: reseating a proxy v (assigning it a new referent or another proxy)
\* changes the address held by v only: v holds the new address, every other
\* proxy, including copies of v made earlier and proxies aliasing v's former
\* referent, keeps its address, and no referent's value changes.
C15_ReseatFrame ==
  [][ last'.op \in {"assign_ref", "assign_copy", "assign_move"} =>
        /\ target'[last'.dst] = last'.arg
        /\ \A s \in Slots \ {last'.dst} : target'[s] = target[s]
        /\ UNCHANGED <<val, kind, alive>> ]_vars

\* a proxy has just been assigned a new referent while another proxy keeps
\* holding the referent the two shared or another one
C15_Witness ==
  /\ last.op = "assign_ref"
  /\ \E s \in alive \ {last.dst} :
       /\ target[s] # Null
       /\ target[s] # target[last.dst]

\* C16: writing a value through a proxy (*v = x, or through its implicit
\* conversion to T&) changes only the value of the referent v holds: no proxy's
\* address changes, referents at other addresses keep their values, and every
\* proxy holding that address reads the new value afterwards.
C16_WriteFrame ==
  /\ [][ last'.op = "write" =>
           LET a == target[last'.dst] IN
             /\ val'[a] = last'.arg
             /\ \A b \in Addr \ {a} : val'[b] = val[b]
             /\ \A s \in alive : target'[s] = a => deref(val', target'[s]) = last'.arg
             /\ UNCHANGED <<kind, alive, target>> ]_vars
  /\ [][ ( /\ last.op = "write"
           /\ last'.op = "read"
           /\ target[last'.dst] = target[last.dst] )
         => last'.res = last.arg ]_vars

\* a value has just been written through one proxy while a second proxy
\* holds the same address and another referent holds a different value: the
\* second proxy reads the written value
C16_Witness ==
  /\ last.op = "write"
  /\ \E s \in alive \ {last.dst} :
       /\ target[s] = target[last.dst]
       /\ deref(val, target[s]) = last.arg
  /\ \E b \in Addr : val[b] # last.arg

\* the relational operators have just been evaluated on two proxies of the
\* classes fams
Ordered(fams) ==
  /\ last.op = "order"
  /\ fam(last.dst) \in fams

\* irreflexive and transitive; neither a < b nor b < a iff a == b; a > b,
\* a <= b, a >= b equal b < a, !(b < a), !(a < b)
StrictOrderConsistentWithEq(r, p, q) ==
  /\ p = q => ~r.lt
  /\ r.lt_key /\ r.key_lt => r.lt
  /\ (~r.lt /\ ~r.tl) <=> r.eq
  /\ r.gt <=> r.tl
  /\ r.le <=> ~r.tl
  /\ r.ge <=> ~r.lt

\* C17 as stated: operator< on proxies is a strict total order on held
\* addresses that is consistent with ==: it is irreflexive and transitive, for
\* two proxies over distinct addresses exactly one of a < b, b < a holds,
\* !(a < b) && !(b < a) iff a == b, and a > b, a <= b, a >= b equal b < a,
\* !(b < a), !(a < b); hence a lookup in an ordered set by a proxy to x finds
\* the stored proxy to x.
C17_StrictTotalOrderOnAddresses ==
  Ordered(Families) =>
    LET r == last.res
        p == target[last.dst]
        q == target[last.src]
    IN  /\ StrictOrderConsistentWithEq(r, p, q)
        /\ p # q => (r.lt <=> ~r.tl)
        /\ last.arg \in r.stored => r.find.found /\ r.find.ptr = last.arg

\* C17 amended: for every class but gsl::optional_ref the statement holds as
\* it stands.  operator< of gsl::optional_ref orders by engagement and then by
\* the referents' values: it is irreflexive and transitive and consistent with
\* its == and with >, <=, >= in the same way, but of two engaged proxies over
\* distinct addresses exactly one is less than the other only when the
\* referents' values differ, and a lookup in an ordered set finds a stored
\* proxy whose referent has the value of x.
C17_StrictOrderByAddressOrValue ==
  /\ Ordered(Families \ {"gsl_optional_ref"}) =>
       LET r == last.res
           p == target[last.dst]
           q == target[last.src]
       IN  /\ StrictOrderConsistentWithEq(r, p, q)
           /\ p # q => (r.lt <=> ~r.tl)
           /\ last.arg \in r.stored => r.find.found /\ r.find.ptr = last.arg
  /\ Ordered({"gsl_optional_ref"}) =>
       LET r == last.res
           p == target[last.dst]
           q == target[last.src]
       IN  /\ StrictOrderConsistentWithEq(r, p, q)
           /\ (has_value(p) /\ has_value(q) /\ p # q) =>
                IF val[p] # val[q] THEN r.lt <=> ~r.tl ELSE ~r.lt /\ ~r.tl
           /\ (last.arg \in r.stored /\ has_value(last.arg)) =>
                /\ r.find.found
                /\ has_value(r.find.ptr)
                /\ val[r.find.ptr] = val[last.arg]

\* a set of two views over distinct referents holding equal values: one view
\* is less than the other and the lookup by a view to the referent of the
\* greater one has found it
C17_Witness ==
  /\ Ordered({"view"})
  /\ target[last.dst] # target[last.src]
  /\ val[target[last.dst]] = val[target[last.src]]
  /\ last.res.lt /\ ~last.res.tl
  /\ last.arg = target[last.src]
  /\ last.res.find.found
  /\ last.res.find.ptr = target[last.src]

C19_EqualImpliesEqualHash ==
  last.op = "hash" =>
    /\ last.res.eq => last.res.lhs = last.res.rhs
    /\ ( /\ fam(last.dst) \in Optional
         /\ ~has_value(target[last.dst])
         /\ ~has_value(target[last.src]) )
       => last.res.eq /\ last.res.lhs = last.res.rhs

\* two gsl::optional_ref over distinct referents holding equal values have
\* just compared equal and hashed equal
C19_Witness ==
  /\ last.op = "hash"
  /\ fam(last.dst) = "gsl_optional_ref"
  /\ has_value(target[last.dst]) /\ has_value(target[last.src])
  /\ target[last.dst] # target[last.src]
  /\ last.res.eq
  /\ last.res.lhs = last.res.rhs

\* C20: converting a proxy w0 to a derived object d into a proxy v to its base
\* type and then static-casting it back to the derived type yields a proxy w
\* with w == w0, w == v (the derived* converted to base* for the comparison)
\* and, when w0 is engaged, w == d, for the non-optional and the optional
\* classes that have casts.
C20_StaticCastRoundTrip ==
  last.op = "round_trip" =>
    LET f == fam(last.dst)
        w0 == target[last.dst]
        v == last.res.base
        w == last.res.derived
    IN  /\ eq_proxy(val, f, w, w0)
        /\ eq_proxy(val, f, convert_to_base(f, w, last.arg).ptr, v)
        /\ has_value(w0) => eq_referent(val, f, w, w0)
        /\ has_value(w) <=> has_value(w0)

\* an empty optional_view to derived has just been converted to base and cast
\* back, the base subobject lying at a non-zero offset: the result is empty
C20_Witness ==
  /\ last.op = "round_trip"
  /\ fam(last.dst) = "optional_view"
  /\ last.arg > 0
  /\ ~has_value(target[last.dst])
  /\ ~has_value(last.res.base)
  /\ ~has_value(last.res.derived)

\* ----------------------------------------------------------------------
\* C21: converting a non-optional proxy to the optional class of its header
\* never fails and yields an engaged optional holding the same address;
\* constructing the non-optional class back from that optional, where it
\* declares the (explicit) constructor, never fails either and yields a proxy
\* equal to the original.
C21_OptionalRoundTrip ==
  /\ (/\ last.op \in {"ctor_copy", "ctor_move"}
      /\ fam(last.dst) = OptionalOf(fam(last.src)))
       => /\ last.exc = "none"
          /\ last.dst \in alive
          /\ has_value(target[last.dst])
          /\ target[last.dst] = target[last.src]
  /\ last.op = "convert_round_trip"
       => /\ last.res.opt.exc = "none"
          /\ has_value(last.res.opt.ptr)
          /\ last.res.opt.ptr = target[last.dst]
          /\ Conversion(fam(last.dst), OptionalOf(fam(last.dst))) = "explicit"
               => /\ last.res.back.exc = "none"
                  /\ eq_proxy(val, fam(last.dst), last.res.back.ptr, target[last.dst])

\* A view went to an optional_view and back.
C21_Witness ==
  /\ last.op = "convert_round_trip"
  /\ fam(last.dst) \in {"view", "indirect"}
  /\ last.res.back.exc = "none"
  /\ last.res.back.ptr = target[last.dst]
  /\ has_value(last.res.opt.ptr)

\* ----------------------------------------------------------------------
\* C22: swap(a, b) leaves a holding the address b held and b the address a
\* held (the empty state of an optional included), leaves every other proxy
\* and every referent's value as they were, and leaves a unchanged when a and
\* b are one object; for bare proxies and for propagate_const wrappers alike.
C22_SwapExchanges ==
  [][last'.op \in {"swap", "pc_swap"}
       => /\ target'[last'.dst] = target[last'.src]
          /\ target'[last'.src] = target[last'.dst]
          /\ \A s \in Slots \ {last'.dst, last'.src} : target'[s] = target[s]
          /\ val' = val
          /\ alive' = alive
          /\ last'.dst = last'.src => target' = target]_vars

\* Two proxies over different referents (or one of them empty) were swapped.
C22_Witness ==
  /\ last.op \in {"swap", "pc_swap"}
  /\ last.dst # last.src
  /\ target[last.dst] # target[last.src]

\* ----------------------------------------------------------------------
\* The address observations of a proxy freshly bound to x: &*v, the pointer
\* and the reference it converts to are the address of x, and v == x.
FreshAddresses(r, f) ==
  /\ r.addr = r.x
  /\ HasPointerConversion(f) => r.ptr = r.x
  /\ (HasImplicitRefConversion(f) \/ HasExplicitRefConversion(f)) => r.ref = r.x
  /\ HasReferentCompare(f) => r.x \in r.eq /\ r.x \notin r.ne

C24_ValueOr ==
  [][last'.op = "value_or"
       => /\ last'.exc = "none"
          /\ has_value(target[last'.dst]) => last'.res = val[target[last'.dst]]
          /\ ~has_value(target[last'.dst])
               => /\ last'.res = to_value_type(last'.arg)
                  /\ last'.arg \in Val => last'.res = last'.arg
          /\ target' = target
          /\ val' = val
          /\ alive' = alive]_vars

\* value_or was called on an engaged optional whose referent held a value
\* other than the default.
C24_Witness ==
  /\ last.op = "value_or"
  /\ has_value(target[last.dst])
  /\ last.res = val[target[last.dst]]
  /\ last.res # 0
  /\ last.arg # last.res

\* ----------------------------------------------------------------------
\* C25: no reference proxy can be bound to a temporary: for every proxy class
\* and for const and non-const element types alike, construction, and a call
\* of the factory, with an rvalue referent is rejected at compile time and
\* produces no proxy.
C25_TemporaryRejected ==
  last.op = "ctor_temporary" => last.exc = "ill_formed"

\* ----------------------------------------------------------------------
\* C26: every failing operation (constructing a non-optional proxy from a
\* null pointer or from an empty optional, a throwing dynamic cast, value()
\* on an empty optional) leaves the address of every existing proxy, the
\* operation's source operand included, and the value of every referent
\* unchanged, and brings no proxy into existence.
C26_FailureChangesNothing ==
  [][last'.exc # "none"
       => /\ target' = target
          /\ val' = val
          /\ alive' = alive]_vars

\* A dynamic cast of an engaged view threw and its source still holds its
\* referent.
C26_Witness ==
  /\ last.op = "dynamic_cast"
  /\ last.exc = "bad_cast"
  /\ last.src \in alive
  /\ has_value(target[last.src])
  /\ last.dst \notin alive

\* ----------------------------------------------------------------------
\* C27: copy- or move-constructing, and copy- or move-assigning, a proxy d
\* from a proxy s makes d refer to the referent of s and leaves s referring
\* to the referent it referred to before: a moved-from proxy is neither
\* emptied nor invalidated.  For bare proxies (gsl::retained: move only) and
\* for propagate_const wrappers.
C27_SourceKeepsReferent ==
  [][(/\ last'.op \in {"ctor_copy", "ctor_move", "assign_copy", "assign_move",
                        "pc_ctor", "pc_assign"}
      /\ last'.exc = "none")
       => /\ target'[last'.dst] = target[last'.src]
          /\ target'[last'.src] = target[last'.src]
          /\ last'.src \in alive'
          /\ last'.dst \in alive'
          /\ val' = val]_vars

\* A proxy or a wrapper bound to a referent was moved from and both it and the
\* destination hold that referent.
C27_Witness ==
  /\ \/ last.op \in {"ctor_move", "assign_move"}
     \/ last.op \in {"pc_ctor", "pc_assign"} /\ last.arg = "rvalue"
  /\ last.exc = "none"
  /\ last.dst # last.src
  /\ has_value(target[last.src])
  /\ target[last.dst] = target[last.src]

C29_RelationalOperatorsConsistent ==
  last.op = "gsl_relational" =>
    \A d \in {<<"fwd", "rev">>, <<"rev", "fwd">>} :
      LET ab == last.res[d[1]]
          ba == last.res[d[2]]
      IN  /\ ab["!="] = ~ab["=="]
          /\ ab[">"] = ba["<"]
          /\ ab["<="] = ~ba["<"]
          /\ ab[">="] = ~ab["<"]

\* An empty optional_ref compared with a plain value: it is less than the
\* value, and the value is greater than it.
C29_Witness ==
  /\ last.op = "gsl_relational"
  /\ last.arg.kind = "value"
  /\ target[last.dst] = Null
  /\ last.res.fwd["<"] = TRUE
  /\ last.res.rev[">"] = TRUE
  /\ last.res.fwd["=="] = FALSE

\* C30: an optional_ref (top-level or gsl::) is bound exactly once: no step
\* changes the engagement or the address of an optional_ref that exists
\* before and after it, and a copy of an optional_ref holds the address its
\* source holds.
C30_BoundOnce ==
  [][ /\ \A s \in Slots :
           (fam(s) \in BoundOnce /\ s \in alive /\ s \in alive') =>
             target'[s] = target[s]
      /\ ( /\ last'.op \in {"ctor_copy", "ctor_move"}
           /\ last'.exc = "none"
           /\ fam(last'.dst) \in BoundOnce ) =>
             target'[last'.dst] = target[last'.src] ]_vars

\* A top-level optional_ref copied from an engaged one, both alive and
\* holding the same address.
C30_Witness ==
  /\ last.op = "ctor_copy"
  /\ fam(last.dst) = "optional_ref"
  /\ last.dst # last.src
  /\ {last.dst, last.src} \subseteq alive
  /\ target[last.src] # Null
  /\ target[last.dst] = target[last.src]

====
